---------------------------- MODULE Spec2Model ----------------------------
(***************************************************************************)
(* Graph-to-tree reconstruction and condition resolution of the            *)
(* Environment_Toggle_Drift pipeline (src/Environment_Toggle_Drift).       *)
(*                                                                         *)
(* Python values are modelled as follows.                                  *)
(*   - a dict is a TLA+ record holding exactly the keys that are present;  *)
(*     d.get(k) is Get(d, k), which yields None for an absent key;         *)
(*   - ids, class tags and plain strings are TLA+ strings;                 *)
(*   - a dotted condition name is the sequence of its dot-separated        *)
(*     segments (what s.split(".") returns), so "" is <<"">>;              *)
(*   - a Position "1.2.3" is the sequence of its segments, a digit segment *)
(*     being the number it spells and a non-digit segment a negative one;  *)
(*   - a ";"-joined string (Value_action, Action ID) is the sequence of    *)
(*     the parts that were joined, so "" is <<>> and "a;b" is <<"a","b">>; *)
(*   - a list is a sequence, a set a set;                                  *)
(*   - a value of the wrong shape in a link field is a reserved token:     *)
(*     "<list>" and "<dict>" are a non-empty list and dict where one id is *)
(*     expected (both unhashable), "int:5" an integer, and NotIterable an  *)
(*     integer where a list is expected.                                   *)
(***************************************************************************)
EXTENDS Integers, Sequences, FiniteSets, TLC

VARIABLES
    pc,          \* position of the run inside the operation under study
    cand_set,    \* policy_tree.py:38  set(cond_names_parent)
    cond_names,  \* merge.py:62        the list handed to pick_single_condition_path
    cond_val,    \* policy_tree.py:39  cond_val_parent, the winning name
    merged_df,   \* merge.py:134       the rows propagate_conditions works on
    pre_df,      \* history: merged_df as sorted, before the loop changed a row
    stack,       \* merge.py:142       stack of (segs, row_val)
    idx,         \* merge.py:143       index of the row the loop is at
    data,        \* main.py:39         the deployment package, a list of node dicts
    start,       \* the node id an operation is called with
    rc,          \* merge.py:7-35      resolve_constants: call frames, seen, returned list
    cc,          \* merge.py:40        collect_condition_def_ids_from_tree: stack, seen, result
    df_action,             \* main.py:50  the ACTION table
    df_policy_targeting,   \* main.py:51  the targeting/toggles table
    df_policy_tree,        \* main.py:49  policy_tree_records, the rows of the tree
    tr,          \* policy_tree.py:25-83  build_policy_tree: root, call frames, log
    toggle_files,    \* toggles.py:150  {ENV: file}, as the list of its items in order
    df_toggles,      \* toggles.py:194  the disabled-toggle records, in order
    missing_records, \* toggles.py:205  the records that matched no row
    trow,            \* toggles.py:208  index of the record the loop is at
    styles,      \* exporters.py:27 / app.py:108  the style given to each row
    op_node,     \* generate_final_toggle.py:32 / update_release_toggle_input.py:126  node
    op_before    \* history: op_node as the function was called with it

pickVars == <<cand_set, cond_names, cond_val>>
propVars == <<merged_df, pre_df, stack, idx>>
graphVars == <<data, start, rc, cc>>
pipeVars == <<df_action, df_policy_targeting, df_policy_tree, tr>>
togVars == <<toggle_files, df_toggles, missing_records, trow, styles>>
opVars == <<op_node, op_before>>
vars == <<pc, pickVars, propVars, graphVars, pipeVars, togVars, opVars>>

-----------------------------------------------------------------------------
(* Bounds of the model *)

MaxCands == 3      \* most candidate names collected for one tree node
MaxRows == 3       \* most rows of a table handed to propagate_conditions
MaxInputs == 2     \* most inputNodes of a CombinedDecisionNode
MaxTogRows == 2    \* most rows of a table handed to integrate_toggles
RecursionLimit == 4  \* most nested calls of traverse before RecursionError
MaxKids == 2         \* most sub-toggle nodes of a toggle node

-----------------------------------------------------------------------------
(* Python values *)

None == "<None>"

Get(d, k) == IF k \in DOMAIN d THEN d[k] ELSE None

\* Python truthiness of the values the model holds in dict fields.
Truthy(v) == v \notin {None, "", "int:0", "str:"}

\* node.get(field, []) for a list-valued field
GetList(d, k) == IF k \in DOMAIN d THEN d[k] ELSE <<>>

\* values that are not strings, and those of them that cannot be hashed
NonStrings == {"<list>", "<dict>", "int:5", "int:0"}
Unhashable(v) == v \in {"<list>", "<dict>"}
isinstance_str(v) == v \notin NonStrings \cup {None}

\* an integer held by a list-valued field: `for x in 5` raises TypeError
NotIterable == <<"<int>">>
isinstance_list(v) == v # NotIterable

\* the empty dict; `not node` holds of it and of None
EmptyDict == [k \in {} |-> None]
Falsy(node) == DOMAIN node = {}

\* str(val) for the values ConstantNodes carry: "str:x" is the string x and
\* "int:0" the integer 0
str(v) ==
    CASE v = "str:action:a" -> "action:a"
      [] v = "str:action:foo/bar" -> "action:foo/bar"
      [] v = "str:action:b" -> "action:b"
      [] v = "str:0" -> "0"
      [] v = "int:0" -> "0"
      [] v = "str:" -> ""
      [] OTHER -> v

\* last element of the non-empty set of indices S
MaxOf(S) == CHOOSE m \in S : \A k \in S : k <= m
MinOf(S) == CHOOSE m \in S : \A k \in S : m <= k

Range(s) == {s[i] : i \in 1..Len(s)}

\* All orderings of a finite set: the lists list(set(xs)) can be.
Orderings(S) ==
    {o \in [1..Cardinality(S) -> S] : \A i, j \in 1..Cardinality(S) : i # j => o[i] # o[j]}

-----------------------------------------------------------------------------
(* Dotted names *)

EmptyName == <<"">>

\* a is a character prefix of segment b, for the segment tokens of the model
CharPrefix(a, b) == a = "" \/ a = b \/ <<a, b>> \in {<<"TARGETING", "TARGETING_V2">>}

\* str.startswith for a name and a prefix, both given as segment sequences:
\* every prefix segment but the last must equal the name's, the last must
\* be a character prefix of the name's segment at that place.
startswith(name, prefix) ==
    /\ Len(name) >= Len(prefix)
    /\ \A i \in 1..(Len(prefix) - 1) : name[i] = prefix[i]
    /\ CharPrefix(prefix[Len(prefix)], name[Len(prefix)])

\* ".ACTION." in c : some segment that is neither first nor last is ACTION
has_dot_ACTION_dot(c) == \E i \in 2..(Len(c) - 1) : c[i] = "ACTION"

PfxTargeting == <<"POLICY", "TARGETING">>
PfxToggles == <<"POLICY", "TOGGLES">>
PfxAction == <<"ACTION", "">>

\* the condition names of the model's packages
Names ==
    { <<"POLICY", "TARGETING", "A">>,
      <<"POLICY", "TARGETING", "B">>,
      <<"POLICY", "TARGETING", "B", "C">>,
      <<"POLICY", "TARGETING", "ACTION", "FOO">>,
      <<"POLICY", "TARGETING", "ACTION">>,
      <<"POLICY", "TARGETING_V2", "X", "ACTION", "BAR">>,
      <<"POLICY", "TOGGLES", "X">>,
      <<"POLICY", "TOGGLES", "Y">>,
      <<"POLICY", "TOGGLES", "X", "ACTION", "Y", "Z">>,
      <<"ACTION", "FOO">>,
      <<"ACTION", "BAR">>,
      <<"SHARED", "RULE">> }

-----------------------------------------------------------------------------
(* merge.py: pick_single_condition_path *)

\* [c for c in cands if p(c)] is SelectSeq(cands, p)

\* max(cands, key=lambda s: len(s.split("."))) if cands else "" :
\* Python's max returns the first of the maximal elements.
longest(cands) ==
    IF cands = <<>> THEN EmptyName
    ELSE LET i == CHOOSE k \in 1..Len(cands) :
                    /\ \A j \in 1..Len(cands) : Len(cands[j]) <= Len(cands[k])
                    /\ \A j \in 1..(k - 1) : Len(cands[j]) < Len(cands[k])
         IN cands[i]

is_targeting(c) == startswith(c, PfxTargeting)
is_toggles(c) == startswith(c, PfxToggles)

pick_no_action_preference(names) ==
    LET targeting == SelectSeq(names, is_targeting)
        toggles == SelectSeq(names, is_toggles)
    IN IF targeting # <<>> THEN longest(targeting)
       ELSE IF toggles # <<>> THEN longest(toggles)
       ELSE EmptyName

pick_single_condition_path(names) ==
    LET targeting == SelectSeq(names, is_targeting)
        toggles == SelectSeq(names, is_toggles)
        action_first == SelectSeq(targeting, has_dot_ACTION_dot)
    IN IF targeting # <<>>
       THEN (IF action_first # <<>> THEN longest(action_first) ELSE longest(targeting))
       ELSE IF toggles # <<>> THEN longest(toggles)
       ELSE EmptyName

IdlePick == cand_set = {} /\ cond_names = <<>> /\ cond_val = EmptyName
IdleProp == merged_df = <<>> /\ pre_df = <<>> /\ stack = <<>> /\ idx = 0
IdleRc == [frames |-> <<>>, seen |-> {}, ret |-> {}, calls |-> 0, exc |-> None]
IdleCc == [stack |-> <<>>, seen |-> {}, result |-> {}, iters |-> 0, exc |-> None]
IdleGraph == data = <<>> /\ start = "" /\ rc = IdleRc /\ cc = IdleCc
IdleTr == [root_id |-> None, log |-> "", frames |-> <<>>]
IdlePipe ==
    df_action = <<>> /\ df_policy_targeting = <<>> /\ df_policy_tree = <<>> /\ tr = IdleTr
IdleTog ==
    /\ toggle_files = <<>> /\ df_toggles = <<>> /\ missing_records = <<>>
    /\ trow = 0 /\ styles = <<>>

IdleOp == op_node = EmptyDict /\ op_before = EmptyDict

-----------------------------------------------------------------------------
(* Specification SpecPick: the winning-condition selection of one tree     *)
(* node.  The candidate names are a set (policy_tree.py:38), which Python  *)
(* lists in an order that depends on string hashing.                       *)

InitPick ==
    /\ pc = "pick_start"
    /\ cand_set \in {S \in SUBSET Names : Cardinality(S) <= MaxCands}
    /\ cond_names = <<>>
    /\ cond_val = EmptyName
    /\ IdleProp
    /\ IdleGraph
    /\ IdlePipe
    /\ IdleTog
    /\ IdleOp

\* policy_tree.py:39  pick_single_condition_path(list(set(cond_names_parent)))
Pick ==
    /\ pc = "pick_start"
    /\ \E o \in Orderings(cand_set) :
          /\ cond_names' = o
          /\ cond_val' = pick_single_condition_path(o)
    /\ pc' = "pick_done"
    /\ UNCHANGED <<cand_set, propVars, graphVars, pipeVars, togVars, opVars>>

NextPick == Pick

SpecPick == InitPick /\ [][NextPick]_vars

-----------------------------------------------------------------------------
(* Claims about the winning-condition selection (SpecPick) *)

\* C4: pick_single_condition_path is a function of the candidate set only:
\* every ordering of the same candidate set yields the winner that was
\* recorded as the node's Condition Path.
C4_PickOrderIndependent ==
    pc = "pick_done" =>
        \A o \in Orderings(cand_set) : pick_single_condition_path(o) = cond_val

TargetingCands == {c \in cand_set : is_targeting(c)}
TogglesCands == {c \in cand_set : is_toggles(c)}
ActionCands == {c \in TargetingCands : has_dot_ACTION_dot(c)}

MostSegmentsIn(w, S) == w \in S /\ \A c \in S : Len(c) <= Len(w)

\* C5: with a targeting candidate the winner is a targeting candidate, never a
\* toggles one, taken from those containing ".ACTION." when there is one and
\* from all targeting candidates otherwise, with the most segments of that
\* subset; with no targeting candidate it is a toggles candidate with the most
\* segments; with neither it is the empty string.
C5_WinnerSelection ==
    pc = "pick_done" =>
        /\ TargetingCands # {} =>
              /\ ~is_toggles(cond_val)
              /\ MostSegmentsIn(cond_val,
                    IF ActionCands # {} THEN ActionCands ELSE TargetingCands)
        /\ (TargetingCands = {} /\ TogglesCands # {}) =>
              MostSegmentsIn(cond_val, TogglesCands)
        /\ (TargetingCands = {} /\ TogglesCands = {}) => cond_val = EmptyName

\* C5 witness: a winner chosen among ".ACTION." targeting candidates while a
\* plain targeting candidate at least as long and a toggles candidate longer
\* than the winner were also on offer.
C5_Witness ==
    /\ pc = "pick_done"
    /\ ActionCands # {}
    /\ \E c \in TargetingCands \ ActionCands : Len(c) >= Len(cond_val)
    /\ \E c \in TogglesCands : Len(c) > Len(cond_val)

-----------------------------------------------------------------------------
(* utils.py: pos_tuple;  merge.py: propagate_conditions *)

\* x.isdigit() for a Position segment
isdigit(x) == x >= 0

\* tuple(int(x) for x in str(position).split(".") if x.isdigit())
pos_tuple(position) == SelectSeq(position, isdigit)

\* Python's ordering of tuples of integers: a < b
TupleLess(a, b) ==
    \E k \in 1..(Len(b)) :
        /\ k <= Len(a) + 1
        /\ \A j \in 1..(k - 1) : a[j] = b[j]
        /\ (k = Len(a) + 1 \/ a[k] < b[k])

\* stack[-1][0] == segs[:len(stack[-1][0])] with len(stack[-1][0]) < len(segs)
StrictPrefix(a, b) == Len(a) < Len(b) /\ \A j \in 1..Len(a) : a[j] = b[j]

\* a row of the merged table: the columns propagate_conditions reads
Row(position, cid, val) ==
    [Position |-> position, ConditionID |-> cid, Value_action |-> val]

\* str.strip() on a joined value: a value that is white space only becomes ""
strip(v) == IF v = <<" ">> THEN <<>> ELSE v

\* truthiness of a joined value
NonEmpty(v) == v # <<>>

\* merged_df.sort_values("_pos_tuple"): pandas' default sort is not stable,
\* so rows of equal position may come out in either order.  sorted_from(df, S)
\* is every such listing of the rows whose indices are in S.
RECURSIVE sorted_from(_, _)
sorted_from(df, S) ==
    IF S = {} THEN {<<>>}
    ELSE LET least == {i \in S : \A j \in S :
                          ~TupleLess(pos_tuple(df[j].Position), pos_tuple(df[i].Position))}
         IN UNION {{<<df[i]>> \o rest : rest \in sorted_from(df, S \ {i})} : i \in least}

sort_values(df) == sorted_from(df, 1..Len(df))

\* the while loop of merge.py:145-146, without the unwinding
pop_stack_keep(stk, segs) == stk

\* merge.py:145-146: pop while the top is not a strict prefix of segs
RECURSIVE pop_stack(_, _)
pop_stack(stk, segs) ==
    IF stk # <<>> /\ ~StrictPrefix(stk[Len(stk)][1], segs)
    THEN pop_stack(SubSeq(stk, 1, Len(stk) - 1), segs)
    ELSE stk

-----------------------------------------------------------------------------
(* Specification SpecProp: propagate_conditions on a merged table *)

Ordinals == 1..2
Positions ==
    {<<1>>} \cup {<<1, i>> : i \in Ordinals} \cup {<<1, i, j>> : i, j \in Ordinals}
\* (Condition ID, Value_action) of a row: nothing, a condition without a
\* linked action, an action without a condition (a row that inherited it in an
\* earlier propagation), and two seeds with different actions
RowKinds ==
    {<<"", <<>>>>, <<"c1", <<>>>>, <<"", <<"action:a">>>>, <<"c1", <<"action:a">>>>,
     <<"c2", <<"action:b">>>>}
Rows == {Row(p, k[1], k[2]) : p \in Positions, k \in RowKinds}

\* Tables are listed in position order; ties in either order.
InitProp ==
    /\ pc = "prop_start"
    /\ \E n \in 0..MaxRows :
          merged_df \in {df \in [1..n -> Rows] :
              \A i \in 1..(n - 1) : ~TupleLess(df[i + 1].Position, df[i].Position)}
    /\ pre_df = <<>>
    /\ stack = <<>>
    /\ idx = 0
    /\ IdlePick
    /\ IdleGraph
    /\ IdlePipe
    /\ IdleTog
    /\ IdleOp

\* merge.py:142, the state of the loop over a sorted table
PropStart(df) == [df |-> df, stack |-> <<>>, idx |-> 1]

\* merge.py:143-151, one iteration of the loop
prop_step(st) ==
    LET row == st.df[st.idx]
        segs == pos_tuple(row.Position)
        popped == pop_stack(st.stack, segs)
        row_val == strip(row.Value_action)
    IN IF Truthy(row.ConditionID) /\ NonEmpty(row_val)
       THEN [st EXCEPT !.stack = Append(popped, <<segs, row_val>>), !.idx = @ + 1]
       ELSE IF popped # <<>> /\ ~NonEmpty(row_val)
       THEN [st EXCEPT !.stack = popped, !.idx = @ + 1,
                       !.df[st.idx].Value_action = popped[Len(popped)][2]]
       ELSE [st EXCEPT !.stack = popped, !.idx = @ + 1]

RECURSIVE prop_run(_)
prop_run(st) == IF st.idx > Len(st.df) THEN st ELSE prop_run(prop_step(st))

\* merge.py:138-142
PropSort ==
    /\ pc = "prop_start"
    /\ merged_df' \in sort_values(merged_df)
    /\ pre_df' = merged_df'
    /\ stack' = <<>>
    /\ idx' = 1
    /\ pc' = "prop_loop"
    /\ UNCHANGED <<pickVars, graphVars, pipeVars, togVars, opVars>>

\* merge.py:143-151, one iteration of the loop
PropIter ==
    /\ pc = "prop_loop"
    /\ idx <= Len(merged_df)
    /\ LET st == prop_step([df |-> merged_df, stack |-> stack, idx |-> idx])
       IN /\ merged_df' = st.df
          /\ stack' = st.stack
          /\ idx' = st.idx
    /\ UNCHANGED <<pc, pre_df, pickVars, graphVars, pipeVars, togVars, opVars>>

\* merge.py:152-155
PropReturn ==
    /\ pc = "prop_loop"
    /\ idx > Len(merged_df)
    /\ pc' = "prop_done"
    /\ UNCHANGED <<propVars, pickVars, graphVars, pipeVars, togVars, opVars>>

NextProp == PropSort \/ PropIter \/ PropReturn

SpecProp == InitProp /\ [][NextProp]_vars

-----------------------------------------------------------------------------
(* Claims about propagate_conditions (SpecProp) *)

Seeds(i) ==
    {j \in 1..Len(pre_df) :
        /\ StrictPrefix(pos_tuple(pre_df[j].Position), pos_tuple(pre_df[i].Position))
        /\ pre_df[j].ConditionID # ""
        /\ pre_df[j].Value_action # <<>>}

SelfSeed(i) ==
    IF pre_df[i].ConditionID # "" /\ pre_df[i].Value_action # <<>> THEN {i} ELSE {}

Nearest(S) == {j \in S : \A k \in S : Len(pre_df[k].Position) <= Len(pre_df[j].Position)}

InheritsFrom(i, S) ==
    IF S = {} THEN merged_df[i].Value_action = <<>>
    ELSE \E j \in Nearest(S) : merged_df[i].Value_action = pre_df[j].Value_action

AncestorsUnique(i) ==
    \A j, k \in 1..Len(pre_df) :
        (/\ StrictPrefix(pos_tuple(pre_df[j].Position), pos_tuple(pre_df[i].Position))
         /\ pre_df[j].Position = pre_df[k].Position) => j = k

-----------------------------------------------------------------------------
(* Graph index: main.py:45-47, policy_tree.py:12-22 *)

\* {d["id"]: d for d in data if "id" in d}.get(nid, {}) : the last node of
\* the list with that id
id_lookup(nid) ==
    LET S == {i \in 1..Len(data) : "id" \in DOMAIN data[i] /\ data[i].id = nid}
    IN IF S = {} THEN EmptyDict ELSE data[MaxOf(S)]

\* {o["id"]: o for o in data if o.get("class") == "AttributeDefinition"}
attr_defs(nid) ==
    LET S == {i \in 1..Len(data) :
                 Get(data[i], "class") = "AttributeDefinition" /\ data[i].id = nid}
    IN IF S = {} THEN EmptyDict ELSE data[MaxOf(S)]

\* [d for d in data if d.get("class") == "ConditionDefinition"]
is_condition_def(d) == Get(d, "class") = "ConditionDefinition"
condition_defs == SelectSeq(data, is_condition_def)

\* cond.get("name", "")
NameOf(d) == IF "name" \in DOMAIN d THEN d.name ELSE EmptyName

-----------------------------------------------------------------------------
(* merge.py: resolve_constants.  The recursion is run on an explicit stack   *)
(* of call frames; a frame holds the calls its body has still to make and    *)
(* the results it has gathered.  The bottom frame is the caller's.  `calls`  *)
(* counts the calls made so far (it is read by no step).                     *)

CompositeClasses == {"BooleanLogicNode", "ComparisonNode", "StatementNode"}

\* merge.py:29 and merge.py:32, the fields a composite node is followed through
rc_single_fields == <<"inputNode", "lhsInputNode", "rhsInputNode", "guardNode">>
rc_list_fields == <<"inputNodes", "statements">>

\* the place in a body's calls where iterating a non-list raises
RaiseTypeError == "<raise TypeError>"

\* merge.py:32-34: for child in node.get(field, [])
RECURSIVE FlattenLists(_, _)
FlattenLists(node, fields) ==
    IF fields = <<>> THEN <<>>
    ELSE IF ~isinstance_list(GetList(node, Head(fields))) THEN <<RaiseTypeError>>
    ELSE GetList(node, Head(fields)) \o FlattenLists(node, Tail(fields))

RECURSIVE PresentSingles(_, _)
PresentSingles(node, fields) ==
    IF fields = <<>> THEN <<>>
    ELSE (IF Truthy(Get(node, Head(fields))) THEN <<node[Head(fields)]>> ELSE <<>>)
            \o PresentSingles(node, Tail(fields))

\* merge.py:23-34: the recursive calls the body makes for `node`, in order
rc_calls(node) ==
    LET cls == Get(node, "class")
    IN IF cls = "ConstantNode" THEN <<>>
       ELSE IF cls = "ConditionDefinition" /\ Truthy(Get(node, "condition"))
       THEN <<node.condition>>
       ELSE IF cls = "ConditionReferenceNode" THEN <<Get(node, "definitionId")>>
       ELSE IF cls \in CompositeClasses
       THEN PresentSingles(node, rc_single_fields) \o FlattenLists(node, rc_list_fields)
       ELSE <<>>

\* merge.py:19-22: val = node.get("value") or node.get("constant")
rc_own(node) ==
    IF Get(node, "class") = "ConstantNode"
    THEN LET val == IF Truthy(Get(node, "value")) THEN node.value ELSE Get(node, "constant")
         IN IF val # None THEN {str(val)} ELSE {}
    ELSE {}

\* merge.py:11: a call that returns at once
rc_skipped(nid, seen) == ~Truthy(nid) \/ nid \in seen

\* the same test without the visited set
cc_skipped_no_seen(nid, seen) == ~Truthy(nid)

\* merge.py:43
cc_skipped(nid, seen) == ~Truthy(nid) \/ nid \in seen

RcStart(nid) ==
    [frames |-> <<[todo |-> <<nid>>, results |-> {}]>>, seen |-> {}, ret |-> {},
     calls |-> 0, exc |-> None]

\* merge.py:11 and merge.py:33: `node_id in seen` on a value that cannot be
\* hashed, and iteration over a value that is not a list, raise TypeError
rc_raises(nid) == nid = RaiseTypeError \/ (Truthy(nid) /\ Unhashable(nid))

\* one step of the recursion: the top frame makes its next call, or returns
resolve_step(st) ==
    LET n == Len(st.frames)
        top == st.frames[n]
    IN IF top.todo = <<>>
       THEN \* return list(set(results)); the caller extends its results with it
            IF n = 1
            THEN [st EXCEPT !.frames = <<>>, !.ret = top.results]
            ELSE [st EXCEPT !.frames =
                     [SubSeq(st.frames, 1, n - 1) EXCEPT
                         ![n - 1].results = @ \cup top.results]]
       ELSE LET nid == Head(top.todo)
                rest == [st.frames EXCEPT ![n].todo = Tail(top.todo)]
                node == IF Falsy(id_lookup(nid)) THEN attr_defs(nid) ELSE id_lookup(nid)
            IN IF rc_raises(nid)
               THEN [st EXCEPT !.frames = <<>>, !.exc = "TypeError"]
               ELSE IF rc_skipped(nid, st.seen)
               THEN [st EXCEPT !.frames = rest, !.calls = @ + 1]
               ELSE IF Falsy(node)
               THEN [st EXCEPT !.frames = rest, !.seen = @ \cup {nid}, !.calls = @ + 1]
               ELSE [st EXCEPT
                        !.frames = Append(rest, [todo |-> rc_calls(node),
                                                 results |-> rc_own(node)]),
                        !.seen = @ \cup {nid},
                        !.calls = @ + 1]

RECURSIVE resolve_run(_)
resolve_run(st) == IF st.frames = <<>> THEN st ELSE resolve_run(resolve_step(st))

\* resolve_constants(node_id, id_lookup, attr_defs), as the set of its elements
resolve_constants(nid) == resolve_run(RcStart(nid)).ret

-----------------------------------------------------------------------------
(* merge.py: collect_condition_def_ids_from_tree *)

cc_single_fields == <<"inputNode", "guardNode", "condition", "lhsInputNode", "rhsInputNode">>

\* merge.py:53-56: stack.append(val) for every listed key holding a string
RECURSIVE StrSingles(_, _)
StrSingles(node, fields) ==
    IF fields = <<>> THEN <<>>
    ELSE (IF isinstance_str(Get(node, Head(fields))) THEN <<node[Head(fields)]>> ELSE <<>>)
            \o StrSingles(node, Tail(fields))

\* merge.py:50: node.get("definitionId") or node.get("ref") or node.get("conditionId")
ref_id_of(node) ==
    IF Truthy(Get(node, "definitionId")) THEN node.definitionId
    ELSE IF Truthy(Get(node, "ref")) THEN node.ref
    ELSE Get(node, "conditionId")

CcStart(nid) == [stack |-> <<nid>>, seen |-> {}, result |-> {}, iters |-> 0, exc |-> None]

\* merge.py:43 and merge.py:52: `nid in seen` and result.add(rid) on a value
\* that cannot be hashed raise TypeError
cc_raises(nid, node) ==
    \/ Truthy(nid) /\ Unhashable(nid)
    \/ /\ ~Falsy(node)
       /\ Get(node, "class") = "ConditionReferenceNode"
       /\ Truthy(ref_id_of(node))
       /\ Unhashable(ref_id_of(node))

\* merge.py:57-58
cc_input_nodes(node) ==
    IF isinstance_list(GetList(node, "inputNodes")) THEN GetList(node, "inputNodes") ELSE <<>>

\* merge.py:41-58, one iteration of the while loop (`iters` counts them)
collect_step(st) ==
    LET n == Len(st.stack)
        nid == st.stack[n]
        popped == SubSeq(st.stack, 1, n - 1)
        node == IF Unhashable(nid) \/ cc_skipped(nid, st.seen) THEN EmptyDict
                ELSE id_lookup(nid)
    IN IF cc_raises(nid, node)
       THEN [st EXCEPT !.stack = <<>>, !.exc = "TypeError"]
       ELSE IF cc_skipped(nid, st.seen)
       THEN [st EXCEPT !.stack = popped, !.iters = @ + 1]
       ELSE IF Falsy(node)
       THEN [st EXCEPT !.stack = popped, !.seen = @ \cup {nid}, !.iters = @ + 1]
       ELSE [st EXCEPT
                !.stack = popped \o StrSingles(node, cc_single_fields)
                                 \o cc_input_nodes(node),
                !.seen = @ \cup {nid},
                !.iters = @ + 1,
                !.result = IF Get(node, "class") = "ConditionReferenceNode"
                              /\ Truthy(ref_id_of(node))
                           THEN @ \cup {ref_id_of(node)} ELSE @]

RECURSIVE collect_run(_)
collect_run(st) == IF st.stack = <<>> THEN st ELSE collect_run(collect_step(st))

collect_condition_def_ids_from_tree(root_node_id) ==
    collect_run(CcStart(root_node_id)).result

-----------------------------------------------------------------------------
(* The condition graphs of the model: four nodes n1..n4 in list order.  n1 is *)
(* a ConditionDefinition whose condition is n2; n2 and n3 are any of the      *)
(* node shapes below, linked forward, sideways, backward (a cycle) or to an   *)
(* id that is not in the package; n4 is a constant or a definition.           *)

Node(id, cls) == [id |-> id, class |-> cls]
With(node, f, v) == (f :> v) @@ node

Missing == "nX"

ConstantShapes(id) ==
    { With(Node(id, "ConstantNode"), "value", "str:action:a"),
      With(Node(id, "ConstantNode"), "constant", "str:action:b"),
      With(Node(id, "ConstantNode"), "value", "int:0"),
      Node(id, "ConstantNode") }

ReferenceShapes(id, next, back) ==
    {With(Node(id, "ConditionReferenceNode"), f, next) :
        f \in {"definitionId", "ref", "conditionId"}}
    \cup {With(Node(id, "ConditionReferenceNode"), "definitionId", t) : t \in {back, Missing}}

ClassOfField(f) ==
    IF f \in {"lhsInputNode", "rhsInputNode"} THEN "ComparisonNode" ELSE "BooleanLogicNode"

CompositeShapes(id, next, other, back) ==
    {With(Node(id, ClassOfField(f)), f, next) :
        f \in {"inputNode", "guardNode", "lhsInputNode", "rhsInputNode",
               "condition", "definitionId"}}
    \cup {With(Node(id, "BooleanLogicNode"), "inputNode", back),
          With(Node(id, "AttributeNode"), "inputNode", next)}
    \cup {With(Node(id, "StatementNode"), f, l) :
            f \in {"inputNodes", "statements"},
            l \in {<<next>>, <<next, other>>, <<back, next>>, <<other, other>>}}

DefinitionShapes(id, names, conds) ==
    {With(With(Node(id, "ConditionDefinition"), "name", nm), "condition", c) :
        nm \in names, c \in conds}
    \cup {With(Node(id, "ConditionDefinition"), "name", nm) : nm \in names}

MidShapes(id, next, other, back) ==
    ConstantShapes(id) \cup ReferenceShapes(id, next, back)
        \cup CompositeShapes(id, next, other, back)
        \cup {With(With(Node(id, "ConditionDefinition"), "name", nm), "condition", next) :
                nm \in {<<"ACTION", "BAR">>, <<"SHARED", "RULE">>}}

EndShapes(id) ==
    ConstantShapes(id)
        \cup DefinitionShapes(id, {<<"ACTION", "FOO">>}, {"n1", id})
        \cup DefinitionShapes(id, {<<"SHARED", "RULE">>}, {})

CondPackages(names1) ==
    {<<d1, d2, d3, d4>> :
        d1 \in {With(With(Node("n1", "ConditionDefinition"), "name", nm), "condition", "n2") :
                    nm \in names1},
        d2 \in MidShapes("n2", "n3", "n4", "n1"),
        d3 \in MidShapes("n3", "n4", Missing, "n2"),
        d4 \in EndShapes("n4")}

\* Nodes with a link field of the wrong shape, next to a well-formed link to
\* `next`
MalformedShapes(id, next) ==
    { With(With(Node(id, "BooleanLogicNode"), "inputNode", "<list>"), "inputNodes", <<next>>),
      With(With(Node(id, "BooleanLogicNode"), "inputNode", "int:5"), "inputNodes", <<next>>),
      With(With(Node(id, "BooleanLogicNode"), "inputNodes", NotIterable), "inputNode", next),
      With(With(Node(id, "StatementNode"), "statements", NotIterable), "inputNode", next),
      With(Node(id, "BooleanLogicNode"), "inputNodes", <<next, "<dict>">>),
      With(Node(id, "BooleanLogicNode"), "inputNodes", <<"int:5", next>>),
      With(Node(id, "ConditionReferenceNode"), "definitionId", "<list>"),
      With(With(Node(id, "ConditionDefinition"), "name", <<"SHARED", "RULE">>),
           "condition", "<dict>") }

MalformedPackages ==
    {<<d1, d2, d3, d4>> :
        d1 \in {With(With(Node("n1", "ConditionDefinition"), "name", <<"ACTION", "FOO">>),
                     "condition", "n2")},
        d2 \in MalformedShapes("n2", "n3"),
        d3 \in ReferenceShapes("n3", "n4", "n2") \cup MalformedShapes("n3", "n4"),
        d4 \in EndShapes("n4")}

-----------------------------------------------------------------------------
(* Specification SpecResolve: resolve_constants and                          *)
(* collect_condition_def_ids_from_tree, step by step, from any start id.     *)

StartIds == {"n1", "n3", Missing, ""}

InitResolve ==
    /\ pc = "res_start"
    /\ data \in CondPackages({<<"ACTION", "FOO">>}) \cup MalformedPackages
    /\ start \in StartIds
    /\ rc = IdleRc
    /\ cc = IdleCc
    /\ IdlePick
    /\ IdleProp
    /\ IdlePipe
    /\ IdleTog
    /\ IdleOp

\* merge.py:7-10: the outermost call resolve_constants(start, ...)
RcCall ==
    /\ pc = "res_start"
    /\ rc' = RcStart(start)
    /\ pc' = "rc_run"
    /\ UNCHANGED <<data, start, cc, pickVars, propVars, pipeVars, togVars, opVars>>

\* merge.py:11-35
RcStep ==
    /\ pc = "rc_run"
    /\ rc.frames # <<>>
    /\ rc' = resolve_step(rc)
    /\ UNCHANGED <<pc, data, start, cc, pickVars, propVars, pipeVars, togVars, opVars>>

\* merge.py:35, the outermost return
RcReturn ==
    /\ pc = "rc_run"
    /\ rc.frames = <<>>
    /\ pc' = IF rc.exc = None THEN "rc_done" ELSE "rc_raised"
    /\ UNCHANGED <<graphVars, pickVars, propVars, pipeVars, togVars, opVars>>

\* merge.py:40, called with the same start id once resolve_constants is back
CcCall ==
    /\ pc \in {"rc_done", "rc_raised"}
    /\ cc' = CcStart(start)
    /\ pc' = "cc_run"
    /\ UNCHANGED <<data, start, rc, pickVars, propVars, pipeVars, togVars, opVars>>

\* merge.py:41-58
CcStep ==
    /\ pc = "cc_run"
    /\ cc.stack # <<>>
    /\ cc' = collect_step(cc)
    /\ UNCHANGED <<pc, data, start, rc, pickVars, propVars, pipeVars, togVars, opVars>>

\* merge.py:59
CcReturn ==
    /\ pc = "cc_run"
    /\ cc.stack = <<>>
    /\ pc' = IF cc.exc = None THEN "cc_done" ELSE "cc_raised"
    /\ UNCHANGED <<graphVars, pickVars, propVars, pipeVars, togVars, opVars>>

NextResolve == RcCall \/ RcStep \/ RcReturn \/ CcCall \/ CcStep \/ CcReturn

\* The code is one synchronous thread: a step that can be taken is taken.
SpecResolve == InitResolve /\ [][NextResolve]_vars /\ WF_vars(NextResolve)

-----------------------------------------------------------------------------
(* Claims about the two traversals (SpecResolve) *)

RECURSIVE SumOver(_, _)
SumOver(f, n) == IF n = 0 THEN 0 ELSE f[n] + SumOver(f, n - 1)

\* the ids a visit of each node of the package hands on: the calls of
\* resolve_constants' body, the pushes of the collector's loop body
RcFanOut == SumOver([i \in 1..Len(data) |-> Len(rc_calls(data[i]))], Len(data))
CcFanOut ==
    SumOver([i \in 1..Len(data) |->
                Len(StrSingles(data[i], cc_single_fields) \o cc_input_nodes(data[i]))],
            Len(data))

\* C2: resolve_constants and collect_condition_def_ids_from_tree terminate on
\* every node graph and start id, reference cycles included: neither makes
\* more calls (loop iterations) than one plus the links of the package, since
\* a node is expanded once, and a run that has not returned from both can
\* always take its next step.
C2_Terminates ==
    /\ rc.calls <= 1 + RcFanOut
    /\ cc.iters <= 1 + CcFanOut
    /\ Len(rc.frames) <= 1 + Len(data)
    /\ pc \notin {"cc_done", "cc_raised"} => ENABLED NextResolve

\* C2 witness: both traversals returned from n1 on a graph in which n2 and n3
\* reference each other through inputNode, after visiting both.
C2_Witness ==
    /\ pc = "cc_done"
    /\ start = "n1"
    /\ Get(data[2], "inputNode") = "n3"
    /\ Get(data[3], "inputNode") = "n2"
    /\ Get(data[3], "class") = "BooleanLogicNode"
    /\ Get(data[2], "class") = "BooleanLogicNode"
    /\ {"n2", "n3"} \subseteq rc.seen
    /\ {"n2", "n3"} \subseteq cc.seen

\* the node an id names: merge.py:14-16
NodeAt(nid) == IF Falsy(id_lookup(nid)) THEN attr_defs(nid) ELSE id_lookup(nid)

\* the ids a node leads to in the reading of C10: a definition to its
\* condition, a reference to definitionId, a Boolean/Comparison/Statement
\* node to every one of the eight link fields it possesses
LeadsTo(node) ==
    LET cls == Get(node, "class")
        one(f) == IF Get(node, f) # None THEN {node[f]} ELSE {}
    IN IF cls = "ConditionDefinition" THEN one("condition")
       ELSE IF cls = "ConditionReferenceNode" THEN one("definitionId")
       ELSE IF cls \in CompositeClasses
       THEN one("inputNode") \cup one("guardNode") \cup one("lhsInputNode")
               \cup one("rhsInputNode") \cup one("condition") \cup one("definitionId")
               \cup Range(GetList(node, "inputNodes")) \cup Range(GetList(node, "statements"))
       ELSE {}

RECURSIVE ReachableFrom(_)
ReachableFrom(S) ==
    LET T == S \cup UNION {LeadsTo(NodeAt(nid)) : nid \in S}
    IN IF T = S THEN S ELSE ReachableFrom(T)

\* what a reached ConstantNode carries, whatever that value is
Carried(node) ==
    IF Get(node, "class") = "ConstantNode"
    THEN LET val == IF Get(node, "value") # None THEN node.value ELSE Get(node, "constant")
         IN IF val # None THEN {str(val)} ELSE {}
    ELSE {}

\* C10: resolve_constants(startId) returns exactly the stringified
\* value/constant fields of the ConstantNodes reachable from startId through
\* condition (definitions), definitionId (references) and all eight link
\* fields of Boolean/Comparison/Statement nodes, whatever the value is.
C10_ExactConstants ==
    pc = "rc_done" =>
        rc.ret = UNION {Carried(NodeAt(nid)) : nid \in ReachableFrom({start})}

-----------------------------------------------------------------------------
(* actions.py and targeting.py: the ACTION table and the targeting table *)

\* the ids and the names of the model in the order Python's sorted() gives
\* them (code-point order of the strings)
IdOrder ==
    <<"A", "B", "R", "T0", "T1", "T2", "T3", "T4", "X",
      "aB", "aF", "cd1", "cd2", "cd3", "gTie", "kB", "kF", "mA", "mB", "mR",
      "n1", "n2", "n3", "n4", "nX", "pk", "rB", "rF",
      "rT0", "rT1", "rT2", "rT3", "rT4", "sT2", "tA", "tB", "tX">>

NameOrder ==
    << <<"ACTION", "BAR">>,
       <<"ACTION", "FOO">>,
       <<"POLICY", "TARGETING", "A">>,
       <<"POLICY", "TARGETING", "ACTION">>,
       <<"POLICY", "TARGETING", "ACTION", "FOO">>,
       <<"POLICY", "TARGETING", "B">>,
       <<"POLICY", "TARGETING", "B", "C">>,
       <<"POLICY", "TARGETING_V2", "X", "ACTION", "BAR">>,
       <<"POLICY", "TOGGLES", "X">>,
       <<"POLICY", "TOGGLES", "X", "ACTION", "Y", "Z">>,
       <<"POLICY", "TOGGLES", "Y">>,
       <<"SHARED", "RULE">> >>

\* sorted(S) for a set of strings listed in `order`
sorted(S, order) == SelectSeq(order, LAMBDA x : x \in S)

\* ";".join(parts): the joined string, as the sequence of its parts; one
\* empty part alone joins to the empty string
join(parts) == IF parts = <<"">> THEN <<>> ELSE parts

\* DataFrame.drop_duplicates(): a row equal to an earlier row is dropped
drop_duplicates(rows) ==
    LET keep == {i \in 1..Len(rows) : \A j \in 1..(i - 1) : rows[j] # rows[i]}
        nth(k) == CHOOSE i \in keep : Cardinality({j \in keep : j <= i}) = k
    IN [k \in 1..Cardinality(keep) |-> rows[nth(k)]]

\* actions.py:9
is_action_def(cond) == startswith(NameOf(cond), PfxAction)
action_defs == SelectSeq(condition_defs, is_action_def)

\* actions.py:10-15, one record; vals is resolve_constants' list
action_record(cond, vals) ==
    [ID |-> cond.id, FullPath |-> NameOf(cond),
     Value_action |-> IF vals # <<>> THEN join(vals) ELSE <<>>]

\* targeting.py:22
la_single_fields == <<"inputNode", "guardNode", "condition", "lhsInputNode", "rhsInputNode">>

\* targeting.py:10
la_skipped(nid, seen) == ~Truthy(nid) \/ nid \in seen

\* targeting.py:7
LaStart(root_node_id) == [stack |-> <<root_node_id>>, seen |-> {}, results |-> {}]

\* a walk that links no action
la_found_none(node) == {}

\* targeting.py:16-21: the (id, name) pair a reference node adds
la_found(node) ==
    LET ref_id == ref_id_of(node)
        ref_node == id_lookup(ref_id)
    IN IF /\ Get(node, "class") = "ConditionReferenceNode"
          /\ Truthy(ref_id)
          /\ ~Falsy(ref_node)
          /\ Get(ref_node, "class") = "ConditionDefinition"
          /\ startswith(NameOf(ref_node), PfxAction)
       THEN {<<ref_node.id, ref_node.name>>}
       ELSE {}

\* targeting.py:9-27, one iteration of the while loop
la_step(st) ==
    LET n == Len(st.stack)
        nid == st.stack[n]
        popped == SubSeq(st.stack, 1, n - 1)
        node == id_lookup(nid)
    IN IF la_skipped(nid, st.seen)
       THEN [st EXCEPT !.stack = popped]
       ELSE IF Falsy(node)
       THEN [st EXCEPT !.stack = popped, !.seen = @ \cup {nid}]
       ELSE [st EXCEPT
                !.stack = popped \o StrSingles(node, la_single_fields)
                                 \o GetList(node, "inputNodes"),
                !.seen = @ \cup {nid},
                !.results = @ \cup la_found(node)]

RECURSIVE la_run(_)
la_run(st) == IF st.stack = <<>> THEN st ELSE la_run(la_step(st))

\* targeting.py:6-28
collect_linked_action_conditions_with_ids(root_node_id) ==
    la_run(LaStart(root_node_id)).results

\* targeting.py:33
is_targeting_def(cond) ==
    startswith(NameOf(cond), PfxTargeting) \/ startswith(NameOf(cond), PfxToggles)

\* targeting.py:32-44, one record
targeting_record(cond) ==
    LET name == NameOf(cond)
        linked == collect_linked_action_conditions_with_ids(cond.id)
    IN [ID |-> cond.id,
        FullPath |-> name,
        Category |-> IF startswith(name, PfxTargeting) THEN "Targeting" ELSE "Toggles",
        ActionID |-> join(sorted({l[1] : l \in linked}, IdOrder)),
        Value_action |-> join(sorted({l[2] : l \in linked}, NameOrder))]

\* targeting.py:30-47
extract_targeting ==
    LET conds == SelectSeq(condition_defs, is_targeting_def)
    IN drop_duplicates([i \in 1..Len(conds) |-> targeting_record(conds[i])])

\* main.py:50  df_action = extract_actions(...); the list resolve_constants
\* returns is list(set(results)), in an order Python does not fix
ExtractActions ==
    /\ pc = "extract_actions"
    /\ \E vals \in [1..Len(action_defs) ->
                      UNION {Orderings(resolve_constants(action_defs[i].id)) :
                                i \in 1..Len(action_defs)}] :
          /\ \A i \in 1..Len(action_defs) :
                vals[i] \in Orderings(resolve_constants(action_defs[i].id))
          /\ df_action' = [i \in 1..Len(action_defs) |->
                              action_record(action_defs[i], vals[i])]
    /\ pc' = "extract_targeting"
    /\ UNCHANGED <<df_policy_targeting, df_policy_tree, tr, pickVars, propVars, graphVars, togVars,
                   opVars>>

\* main.py:51  df_policy_targeting = extract_targeting(...)
ExtractTargeting ==
    /\ pc = "extract_targeting"
    /\ df_policy_targeting' = extract_targeting
    /\ pc' = "tree_check"
    /\ UNCHANGED <<df_action, df_policy_tree, tr, pickVars, propVars, graphVars, togVars,
                   opVars>>

-----------------------------------------------------------------------------
(* Specification SpecExtract: the two extractions over the condition graphs, *)
(* n1 being an action, a targeting or a toggles definition.                  *)

ExtractNames == {<<"ACTION", "FOO">>, <<"POLICY", "TARGETING", "A">>, <<"POLICY", "TOGGLES", "X">>}

InitExtract ==
    /\ pc = "extract_actions"
    /\ data \in CondPackages(ExtractNames)
    /\ start = ""
    /\ rc = IdleRc
    /\ cc = IdleCc
    /\ IdlePick
    /\ IdleProp
    /\ IdlePipe
    /\ IdleTog
    /\ IdleOp

NextExtract == ExtractActions \/ ExtractTargeting

SpecExtract == InitExtract /\ [][NextExtract]_vars

-----------------------------------------------------------------------------
(* Claims about the extractions (SpecExtract) *)

\* every id a node names in any of its link fields
LinksOf(node) ==
    LET one(f) == IF Get(node, f) # None THEN {node[f]} ELSE {}
    IN one("inputNode") \cup one("guardNode") \cup one("lhsInputNode")
          \cup one("rhsInputNode") \cup one("condition") \cup one("definitionId")
          \cup one("ref") \cup one("conditionId")
          \cup Range(GetList(node, "inputNodes")) \cup Range(GetList(node, "statements"))

RECURSIVE Closure(_)
Closure(S) ==
    LET T == S \cup UNION {LinksOf(id_lookup(nid)) : nid \in S}
    IN IF T = S THEN S ELSE Closure(T)

\* the ACTION.* definitions transitively reachable from definition `nid`:
\* those a reference node of the reachable sub-graph names
ReachableActions(nid) ==
    {a \in Closure({nid}) :
        /\ \E r \in Closure({nid}) :
              /\ Get(id_lookup(r), "class") = "ConditionReferenceNode"
              /\ ref_id_of(id_lookup(r)) = a
        /\ Get(id_lookup(a), "class") = "ConditionDefinition"
        /\ startswith(NameOf(id_lookup(a)), PfxAction)}

\* C9: for every definition named POLICY.TARGETING* or POLICY.TOGGLES*, the
\* linked action ids and names of its targeting row are exactly those of the
\* ACTION.* definitions transitively reachable from it, those behind an
\* intermediate definition or a statements list included.
C9_LinkedActionsTransitive ==
    pc = "tree_check" =>
        \A i \in 1..Len(df_policy_targeting) :
            LET row == df_policy_targeting[i]
                acts == ReachableActions(row.ID)
            IN /\ Range(row.ActionID) = acts
               /\ Range(row.Value_action) = {NameOf(id_lookup(a)) : a \in acts}

-----------------------------------------------------------------------------
(* policy_tree.py: build_policy_tree.  The recursion of traverse runs on an  *)
(* explicit stack of call frames: a frame holds the calls its two loops have *)
(* still to make, as (child id, position), and the path of its node.  The    *)
(* bottom frame is build_policy_tree's own, which calls traverse(root, "1"). *)
(* A row holds Position, ID, Policy FullPath (the list of its " / "-joined   *)
(* parts, a part being (originType, name)), Condition Path and Condition ID; *)
(* Policy FullPath ID is built like Policy FullPath and is left out.         *)

\* policy_tree.py:12
is_metadata(d) == Get(d, "class") = "Metadata"
metadata_nodes == SelectSeq(data, is_metadata)

\* policy_tree.py:22  {m["originId"]: m for m in metadata_nodes}.get(origin_id)
metadata_lookup(origin_id) ==
    LET S == {i \in 1..Len(metadata_nodes) : metadata_nodes[i].originId = origin_id}
    IN IF S = {} THEN EmptyDict ELSE metadata_nodes[MaxOf(S)]

\* policy_tree.py:15  a dict keyed by id: one entry per id, at the place of
\* its first node and holding its last
is_cd(d) == Get(d, "class") = "CombinedDecisionNode"
cd_nodes ==
    LET cds == SelectSeq(data, is_cd)
        ids == drop_duplicates([i \in 1..Len(cds) |-> cds[i].id])
    IN [k \in 1..Len(ids) |-> cds[MaxOf({j \in 1..Len(cds) : cds[j].id = ids[k]})]]

\* policy_tree.py:17-20  origin_to_cdnode.get(origin_id, [])
origin_to_cdnode(origin_id) ==
    SelectSeq(cd_nodes, LAMBDA cd : Truthy(Get(cd, "originLink")) /\ cd.originLink = origin_id)

\* policy_tree.py:36  the first condition definition with that id
cond_by_id(cid) ==
    LET S == {i \in 1..Len(condition_defs) : condition_defs[i].id = cid}
    IN IF S = {} THEN EmptyDict ELSE condition_defs[MinOf(S)]

\* policy_tree.py:37  cond and cond.get("name")
has_name(cond) == "name" \in DOMAIN cond /\ cond.name # EmptyName

\* policy_tree.py:32-38, as the set that line 39 makes of the list
cond_names_parent(origin_id) ==
    LET cds == origin_to_cdnode(origin_id)
    IN UNION {{cond_by_id(cid).name :
                  cid \in {c \in collect_condition_def_ids_from_tree(cds[k].guardNode) :
                              has_name(cond_by_id(c))}} :
              k \in {j \in 1..Len(cds) : Truthy(Get(cds[j], "guardNode"))}}

\* policy_tree.py:40
cond_id_parent(cond_val_parent) ==
    LET S == {i \in 1..Len(condition_defs) :
                 "name" \in DOMAIN condition_defs[i] /\ condition_defs[i].name = cond_val_parent}
    IN IF S = {} THEN "" ELSE condition_defs[MinOf(S)].id

\* an ordinal that counts only the inputs that lead to a call
ordinal_of_kept(inputs, i) ==
    Cardinality({j \in 1..i :
        /\ ~Falsy(id_lookup(inputs[j]))
        /\ Get(id_lookup(inputs[j]), "class") = "TargetMatchNode"
        /\ Truthy(Get(id_lookup(inputs[j]), "metadataId"))
        /\ ~Falsy(metadata_lookup(Get(id_lookup(inputs[j]), "metadataId")))})

\* policy_tree.py:52  enumerate(cd.get("inputNodes", []), 1): the ordinal of
\* the i-th input
ordinal(inputs, i) == i

\* policy_tree.py:52-58, the calls one decision node gives rise to, from its
\* i-th input on
RECURSIVE cd_calls(_, _, _)
cd_calls(cd, i, position) ==
    LET inputs == GetList(cd, "inputNodes")
        tmn == id_lookup(inputs[i])
        child_id == Get(tmn, "metadataId")
    IN IF i > Len(inputs) THEN <<>>
       ELSE (IF ~Falsy(tmn) /\ Get(tmn, "class") = "TargetMatchNode" /\ Truthy(child_id)
             THEN << <<child_id, Append(position, ordinal(inputs, i))>> >>
             ELSE <<>>) \o cd_calls(cd, i + 1, position)

\* policy_tree.py:51-58, the calls of traverse(origin_id, ..., position)
RECURSIVE traverse_calls(_, _)
traverse_calls(cds, position) ==
    IF cds = <<>> THEN <<>>
    ELSE cd_calls(Head(cds), 1, position) \o traverse_calls(Tail(cds), position)

\* policy_tree.py:15 and 22: d["id"] of a CombinedDecisionNode without an id
\* and m["originId"] of a Metadata node without an originId raise KeyError
lookup_tables_raise ==
    \E i \in 1..Len(data) :
        \/ is_cd(data[i]) /\ "id" \notin DOMAIN data[i]
        \/ is_metadata(data[i]) /\ "originId" \notin DOMAIN data[i]

\* the root determination without the fallback of lines 72-78
determine_root_header_only ==
    LET S == {i \in 1..Len(data) : Get(data[i], "class") \in {"Package", "DeploymentPackage"}}
        root_id == IF S = {} THEN None ELSE Get(data[MinOf(S)], "rootEntityId")
    IN IF Truthy(root_id) THEN [root_id |-> root_id, log |-> "info"]
       ELSE [root_id |-> None, log |-> "error"]

\* policy_tree.py:63-81: the root id, and the level of the message logged
determine_root ==
    LET S == {i \in 1..Len(data) : Get(data[i], "class") \in {"Package", "DeploymentPackage"}}
        root_id == IF S = {} THEN None ELSE Get(data[MinOf(S)], "rootEntityId")
        F == {i \in 1..Len(metadata_nodes) : Get(metadata_nodes[i], "name") = "NAB Policies"}
    IN IF Truthy(root_id) THEN [root_id |-> root_id, log |-> "info"]
       ELSE IF F # {}
       THEN [root_id |-> Get(metadata_nodes[MinOf(F)], "originId"), log |-> "warning"]
       ELSE [root_id |-> None, log |-> "error"]

\* policy_tree.py:63-83: the root is determined; without one the empty table
\* is returned at once, otherwise traverse(root_id, [], [], "1") is called
TreeStart ==
    /\ pc = "tree_start"
    /\ ~lookup_tables_raise
    /\ LET r == determine_root
       IN IF r.log = "error"
          THEN /\ tr' = [root_id |-> r.root_id, log |-> r.log, frames |-> <<>>]
               /\ pc' = "extract_actions"
          ELSE /\ tr' = [root_id |-> r.root_id, log |-> r.log,
                         frames |-> <<[todo |-> << <<r.root_id, <<1>>>> >>, parts |-> <<>>]>>]
               /\ pc' = "tree_run"
    /\ df_policy_tree' = <<>>
    /\ UNCHANGED <<df_action, df_policy_targeting, pickVars, propVars, graphVars, togVars,
                   opVars>>

\* a call of traverse that has made all its calls returns to its caller
RECURSIVE unwind(_)
unwind(frames) ==
    IF frames # <<>> /\ frames[Len(frames)].todo = <<>>
    THEN unwind(SubSeq(frames, 1, Len(frames) - 1))
    ELSE frames

\* policy_tree.py:25-58: the top frame makes its next call of traverse; the
\* call returns at once (line 28) or emits its row and becomes the top frame
TreeStep ==
    /\ pc = "tree_run"
    /\ tr.frames # <<>>
    /\ Len(tr.frames) <= RecursionLimit
    /\ LET n == Len(tr.frames)
           top == tr.frames[n]
           origin_id == Head(top.todo)[1]
           position == Head(top.todo)[2]
           rest == [tr.frames EXCEPT ![n].todo = Tail(top.todo)]
           node == metadata_lookup(origin_id)
           fullpath_parts == Append(top.parts, <<node.originType, node.name>>)
       IN IF Falsy(node)
          THEN /\ tr' = [tr EXCEPT !.frames = unwind(rest)]
               /\ UNCHANGED df_policy_tree
          ELSE \E names \in Orderings(cond_names_parent(origin_id)) :
                  LET cond_val_parent == pick_single_condition_path(names)
                  IN /\ df_policy_tree' = Append(df_policy_tree,
                            [Position |-> position,
                             ID |-> node.originId,
                             FullPath |-> fullpath_parts,
                             ConditionPath |-> cond_val_parent,
                             ConditionID |-> cond_id_parent(cond_val_parent)])
                     /\ tr' = [tr EXCEPT !.frames = unwind(Append(rest,
                            [todo |-> traverse_calls(origin_to_cdnode(origin_id), position),
                             parts |-> fullpath_parts]))]
    /\ UNCHANGED <<pc, df_action, df_policy_targeting, pickVars, propVars, graphVars, togVars,
                   opVars>>

\* policy_tree.py:84-85
TreeReturn ==
    /\ pc = "tree_run"
    /\ tr.frames = <<>>
    /\ pc' = "extract_actions"
    /\ UNCHANGED <<pipeVars, pickVars, propVars, graphVars, togVars, opVars>>

-----------------------------------------------------------------------------
(* merge.py: merge_datasets.  A merged row holds the columns of its tree row *)
(* and Category, Action ID and Value_action; the Full Path and Value_action  *)
(* columns of the targeting table, which nothing reads, are left out.        *)

\* a missing value in a joined-string column: it equals no string
NaN == <<None>>

RECURSIVE Flatten(_)
Flatten(ss) == IF ss = <<>> THEN <<>> ELSE Head(ss) \o Flatten(Tail(ss))

\* merge.py:84-87: the rows the left join on Condition ID makes of a tree row
join_targeting(t) ==
    LET M == SelectSeq(df_policy_targeting, LAMBDA g : g.ID = t.ConditionID)
    IN IF M = <<>> THEN <<[Category |-> None, ActionID |-> NaN] @@ t>>
       ELSE [k \in 1..Len(M) |->
                [Category |-> M[k].Category, ActionID |-> M[k].ActionID] @@ t]

\* merge.py:88-106: the rows the left join on Action ID makes of such a row,
\* Value_action normalised.  The joined string equals an action's ID when it
\* has that one part.
join_action(m) ==
    LET A == SelectSeq(df_action, LAMBDA a : m.ActionID = <<a.ID>>)
    IN IF A = <<>> THEN <<[Value_action |-> <<>>] @@ m>>
       ELSE [k \in 1..Len(A) |-> [Value_action |-> strip(A[k].Value_action)] @@ m]

\* merge.py:84-111
merged_rows ==
    LET first == Flatten([i \in 1..Len(df_policy_tree) |-> join_targeting(df_policy_tree[i])])
    IN Flatten([i \in 1..Len(first) |-> join_action(first[i])])

\* merge.py:123  str.endswith("Entitlement Check") on the joined path: the
\* name of the last part ends with it
EntitlementCheckNames == {"Entitlement Check"}
mask_entitlement(row) ==
    row.FullPath # <<>> /\ row.FullPath[Len(row.FullPath)][2] \in EntitlementCheckNames

\* main.py:53-55
StopEmptyTree ==
    /\ pc = "tree_check"
    /\ df_policy_tree = <<>>
    /\ pc' = "stopped"
    /\ UNCHANGED <<pipeVars, pickVars, propVars, graphVars, togVars, opVars>>

\* main.py:58, merge.py:83-94: a table built from no record has no columns,
\* and the join on a column it lacks raises KeyError, which is re-raised
MergeKeyError ==
    /\ pc = "tree_check"
    /\ df_policy_tree # <<>>
    /\ df_policy_targeting = <<>> \/ df_action = <<>>
    /\ pc' = "raised_KeyError"
    /\ UNCHANGED <<pipeVars, pickVars, propVars, graphVars, togVars, opVars>>

\* main.py:58, merge.py:80-131: join, normalise, propagate, keep the
\* entitlement rows (all rows when there is none)
Merge ==
    /\ pc = "tree_check"
    /\ df_policy_tree # <<>>
    /\ df_policy_targeting # <<>>
    /\ df_action # <<>>
    /\ \E srt \in sort_values(merged_rows) :
          LET out == prop_run(PropStart(srt)).df
              entitlement_df == SelectSeq(out, mask_entitlement)
          IN /\ pre_df' = srt
             /\ merged_df' = IF entitlement_df = <<>> THEN out ELSE entitlement_df
    /\ pc' = "merged"
    /\ UNCHANGED <<stack, idx, pipeVars, pickVars, graphVars, togVars, opVars>>

\* merge.py:170-171  segment_label: the name of a "<originType>:<name>" part
segment_label(part) == part[2]

\* merge.py:175  segment_label(p).lower() == "check permissions"
CheckPermissionsNames == {"Check Permissions", "check permissions", "CHECK PERMISSIONS"}

\* merge.py:181  str.lower().str.startswith("entitlement check")
EntitlementCheckPrefixed ==
    {"Entitlement Check", "Entitlement Check v2", "entitlement check", "ENTITLEMENT CHECK V2"}

\* merge.py:174-177
has_check_permissions(parts) ==
    Len(parts) > 1 /\ \E k \in 1..(Len(parts) - 1) :
                         segment_label(parts[k]) \in CheckPermissionsNames

\* merge.py:180-181
last_is_entitlement(parts) ==
    parts # <<>> /\ segment_label(parts[Len(parts)]) \in EntitlementCheckPrefixed

\* a filter that keeps every row, used to compare against
\* filter_to_entitlement_checks
filter_keep_all(df) == df
\* merge.py:157-187
filter_to_entitlement_checks(df) ==
    SelectSeq(df, LAMBDA row : has_check_permissions(row.FullPath)
                                  /\ last_is_entitlement(row.FullPath))

\* main.py:59-69: stop on an empty merged table, else propagate once more
\* and keep the entitlement checks; the result goes to integrate_toggles
PropagateAndFilter ==
    /\ pc = "merged"
    /\ IF merged_df = <<>>
       THEN pc' = "stopped" /\ UNCHANGED merged_df
       ELSE /\ \E srt \in sort_values(merged_df) :
                 merged_df' = filter_to_entitlement_checks(prop_run(PropStart(srt)).df)
            /\ pc' = "filtered"
    /\ UNCHANGED <<pre_df, stack, idx, pipeVars, pickVars, graphVars, togVars, opVars>>

-----------------------------------------------------------------------------
(* The packages of the model: an optional header, the Metadata nodes R, A    *)
(* and B, up to three CombinedDecisionNodes, three TargetMatchNodes and the  *)
(* condition sub-graph below.                                                *)

Def(id, name, condition) ==
    [id |-> id, class |-> "ConditionDefinition", name |-> name, condition |-> condition]
Ref(id, definitionId) ==
    [id |-> id, class |-> "ConditionReferenceNode", definitionId |-> definitionId]

\* T0 links no action, T1, T3 and T4 one, T2 two; T3 and T4 tie in pick
CondPart ==
    << Def("T0", <<"POLICY", "TOGGLES", "X">>, "kB"),
       Def("T1", <<"POLICY", "TARGETING", "ACTION", "FOO">>, "rF"),
       Def("T2", <<"POLICY", "TARGETING", "B", "C">>, "sT2"),
       Def("T3", <<"POLICY", "TARGETING", "A">>, "rF"),
       Def("T4", <<"POLICY", "TARGETING", "B">>, "rB"),
       Ref("rT0", "T0"), Ref("rT1", "T1"), Ref("rT2", "T2"), Ref("rT3", "T3"),
       Ref("rT4", "T4"),
       [id |-> "gTie", class |-> "BooleanLogicNode", inputNodes |-> <<"rT3", "rT4">>],
       [id |-> "sT2", class |-> "BooleanLogicNode", inputNodes |-> <<"rF", "rB">>],
       Ref("rF", "aF"), Ref("rB", "aB"),
       Def("aF", <<"ACTION", "FOO">>, "kF"),
       Def("aB", <<"ACTION", "BAR">>, "kB"),
       [id |-> "kF", class |-> "ConstantNode", value |-> "str:action:foo/bar"],
       [id |-> "kB", class |-> "ConstantNode", value |-> "str:action:b"] >>

Meta(id, originId, originType, name) ==
    [id |-> id, class |-> "Metadata", originId |-> originId, originType |-> originType,
     name |-> name]

Tmn(id, metadataId) == [id |-> id, class |-> "TargetMatchNode", metadataId |-> metadataId]

\* tX names a Metadata node the package does not hold
Tmns == <<Tmn("tA", "A"), Tmn("tB", "B"), Tmn("tX", "X")>>

InputLists(S) == UNION {[1..n -> S] : n \in 0..MaxInputs}

Cd(id, originLink, inputNodes) ==
    [id |-> id, class |-> "CombinedDecisionNode", originLink |-> originLink,
     inputNodes |-> inputNodes]

CdShapes(id, originLink, tmns, guards) ==
    {<<Cd(id, originLink, l)>> : l \in InputLists(tmns)}
        \cup {<<With(Cd(id, originLink, l), "guardNode", g)>> :
                 l \in InputLists(tmns), g \in guards}

Headers ==
    { <<>>,
      <<[id |-> "pk", class |-> "Package"]>>,
      <<[id |-> "pk", class |-> "Package", rootEntityId |-> "R", rootEntityName |-> "Root"]>>,
      <<[id |-> "pk", class |-> "DeploymentPackage", rootEntityId |-> "R",
         rootEntityName |-> "Root"]>> }

Pkg(header, root_name, cds, cond_part) ==
    header \o <<Meta("mR", "R", "PolicySet", root_name),
                Meta("mA", "A", "PolicySet", "Check Permissions"),
                Meta("mB", "B", "Policy", "Entitlement Check")>>
           \o cds \o Tmns \o cond_part

\* Under a Package header naming R: every wiring of the decision nodes that
\* has no cycle.  Under every header and root name, with and without the
\* condition sub-graph: the chain R - A.  With a fourth Metadata node C, the
\* policy "Entitlement Check v2": A over B, over C and over both.
TreePackages ==
    {Pkg(<<[id |-> "pk", class |-> "Package", rootEntityId |-> "R",
            rootEntityName |-> "Root"]>>, "Root", c1 \o c2 \o c3, CondPart) :
        c1 \in CdShapes("cd1", "R", {"tA", "tB", "tX"}, {"rT1"}),
        c2 \in {<<>>} \cup CdShapes("cd2", "R", {"tA", "tB"}, {})
                      \cup CdShapes("cd2", "A", {"tB", "tX"}, {"gTie"}),
        c3 \in {<<>>} \cup {<<Cd("cd3", "B", <<>>)>>}
                      \cup {<<With(Cd("cd3", "B", <<>>), "guardNode", g)>> :
                               g \in {"rT0", "rT1", "rT2"}}}
    \cup {Pkg(h, root_name, <<Cd("cd1", "R", <<"tA">>)>>, cond_part) :
            h \in Headers, root_name \in {"Root", "NAB Policies"},
            cond_part \in {CondPart, <<>>}}
    \cup {Pkg(<<[id |-> "pk", class |-> "Package", rootEntityId |-> "R",
                 rootEntityName |-> "Root"]>>, "Root",
               <<Cd("cd1", "R", <<"tA">>), With(Cd("cd2", "A", l), "guardNode", "rT1"),
                 Meta("mC", "C", "Policy", "Entitlement Check v2"), Tmn("tC", "C")>>,
               CondPart) :
            l \in {<<"tB">>, <<"tC">>, <<"tB", "tC">>, <<"tC", "tB">>}}

-----------------------------------------------------------------------------
(* Specification SpecMain: main.py from the loaded package to the table     *)
(* handed to integrate_toggles.                                              *)

InitMain ==
    /\ pc = "tree_start"
    /\ data \in TreePackages
    /\ start = ""
    /\ rc = IdleRc
    /\ cc = IdleCc
    /\ IdlePick
    /\ IdleProp
    /\ IdlePipe
    /\ IdleTog
    /\ IdleOp

NextMain ==
    \/ TreeStart
    \/ TreeStep
    \/ TreeReturn
    \/ ExtractActions
    \/ ExtractTargeting
    \/ StopEmptyTree
    \/ MergeKeyError
    \/ Merge
    \/ PropagateAndFilter

SpecMain == InitMain /\ [][NextMain]_vars

-----------------------------------------------------------------------------
(* Claims about the tree builder and the merge (SpecMain) *)

\* some Package/DeploymentPackage node carries a rootEntityId
HasRootHeader ==
    \E i \in 1..Len(data) :
        /\ Get(data[i], "class") \in {"Package", "DeploymentPackage"}
        /\ Truthy(Get(data[i], "rootEntityId"))

\* the Metadata nodes named "NAB Policies"
NabPolicies ==
    {i \in 1..Len(data) : is_metadata(data[i]) /\ Get(data[i], "name") = "NAB Policies"}

\* build_policy_tree has returned
TreeBuilt == pc \notin {"tree_start", "tree_run"}

ParentPosition(position) == SubSeq(position, 1, Len(position) - 1)

\* C6: in the rows build_policy_tree emitted, every row but the root has
\* exactly one other row at its position less the last segment, which sorts
\* before it, and no two rows share a position.
C6_TreeWellFormed ==
    TreeBuilt =>
        /\ \A i \in 2..Len(df_policy_tree) :
              LET P == {j \in 1..Len(df_policy_tree) :
                           /\ j # i
                           /\ df_policy_tree[j].Position =
                                 ParentPosition(df_policy_tree[i].Position)}
              IN /\ Cardinality(P) = 1
                 /\ \A j \in P : TupleLess(pos_tuple(df_policy_tree[j].Position),
                                           pos_tuple(df_policy_tree[i].Position))
        /\ \A i, j \in 1..Len(df_policy_tree) :
              i # j => df_policy_tree[i].Position # df_policy_tree[j].Position

\* C7: sorting the emitted rows by position, compared as integer tuples,
\* reproduces exactly the order in which the traversal emitted them.
C7_SortReproducesPreOrder ==
    TreeBuilt => sort_values(df_policy_tree) = {df_policy_tree}

\* the targeting rows of a condition id, and the action rows of a set of ids
TargetingOf(cid) == {i \in 1..Len(df_policy_targeting) : df_policy_targeting[i].ID = cid}
ActionsOf(ids) == {i \in 1..Len(df_action) : df_action[i].ID \in ids}

\* C8: after the joins of merge_datasets, a tree row whose winning condition
\* links several ACTION.* definitions carries the deduplicated set of their
\* resolved values; with one linked action that action's value; with none the
\* empty string.
C8_MergedActionSet ==
    pc = "merged" =>
        \A i \in 1..Len(pre_df) : \A t \in TargetingOf(pre_df[i].ConditionID) :
            LET linked == Range(df_policy_targeting[t].ActionID)
                acts == ActionsOf(linked)
                val == pre_df[i].Value_action
            IN IF acts = {} THEN val = <<>>
               ELSE IF Cardinality(acts) = 1 THEN \A a \in acts : val = df_action[a].Value_action
               ELSE /\ Range(val) = UNION {Range(df_action[a].Value_action) : a \in acts}
                    /\ \A k, l \in 1..Len(val) : k # l => val[k] # val[l]

-----------------------------------------------------------------------------
(* Claims about extract_actions (SpecExtract) *)

\* the constant strings of the model in the order sorted() gives them
ValueOrder == <<"", "0", "action:a", "action:b", "action:foo/bar">>

\* C11: for every ACTION.* definition the resolved value of its row is the
\* set of its resolved constants, sorted and joined with ";" (empty if none),
\* whatever the order in which the constants were met.
C11_ActionValueSortedJoin ==
    pc \in {"extract_targeting", "tree_check"} =>
        /\ Len(df_action) = Len(action_defs)
        /\ \A i \in 1..Len(df_action) :
              df_action[i].Value_action =
                  join(sorted(resolve_constants(action_defs[i].id), ValueOrder))

-----------------------------------------------------------------------------
(* Claims about malformed link fields (SpecResolve) *)

\* C12: resolve_constants and collect_condition_def_ids_from_tree never raise,
\* whatever the shape of the link fields of the graph: neither run ends in an
\* exception.  (The claim also fixes the result; that it raises nothing is
\* the part stated here.)
C12_NeverRaises ==
    /\ rc.exc = None
    /\ cc.exc = None
    /\ pc \notin {"rc_raised", "cc_raised"}

-----------------------------------------------------------------------------
(* Scenario A (SpecMain) *)

\* root PolicySet "Root", its child "Check Permissions", the grandchild
\* "Entitlement Check" whose decision node's guard references
\* POLICY.TARGETING.ACTION.FOO, which references ACTION.FOO, which resolves to
\* the constant "action:foo/bar"
ScenarioA ==
    Pkg(<<[id |-> "pk", class |-> "Package", rootEntityId |-> "R", rootEntityName |-> "Root"]>>,
        "Root",
        <<Cd("cd1", "R", <<"tA">>), Cd("cd2", "A", <<"tB">>),
          With(Cd("cd3", "B", <<>>), "guardNode", "rT1")>>,
        CondPart)

\* C13: on the package of Scenario A the tree has exactly the rows 1, 1.1 and
\* 1.1.1, row 1.1.1 has Condition Path POLICY.TARGETING.ACTION.FOO, and after
\* merge and propagation its resolved action is "action:foo/bar".
C13_ScenarioA ==
    data = ScenarioA =>
        /\ TreeBuilt =>
              /\ [i \in 1..Len(df_policy_tree) |-> df_policy_tree[i].Position]
                    = << <<1>>, <<1, 1>>, <<1, 1, 1>> >>
              /\ [i \in 1..Len(df_policy_tree) |-> df_policy_tree[i].ID] = <<"R", "A", "B">>
              /\ df_policy_tree[3].ConditionPath = <<"POLICY", "TARGETING", "ACTION", "FOO">>
        /\ pc = "merged" =>
              /\ \E i \in 1..Len(merged_df) : merged_df[i].Position = <<1, 1, 1>>
              /\ \A i \in 1..Len(merged_df) :
                    merged_df[i].Position = <<1, 1, 1>> =>
                        merged_df[i].Value_action = <<"action:foo/bar">>

\* C13 witness: Scenario A merged, row 1.1.1 carrying the action.
C13_Witness ==
    /\ data = ScenarioA
    /\ pc = "merged"
    /\ Len(df_policy_tree) = 3
    /\ \E i \in 1..Len(merged_df) :
          /\ merged_df[i].Position = <<1, 1, 1>>
          /\ merged_df[i].Value_action = <<"action:foo/bar">>

\* the row is a tree row the toggle integration is meant to see: an earlier
\* part labelled "Check Permissions" and a last part whose label starts
\* with "Entitlement Check"
IsEntitlementCheckRow(row) ==
    LET parts == row.FullPath
    IN /\ Len(parts) > 1
       /\ \E k \in 1..(Len(parts) - 1) : parts[k][2] = "Check Permissions"
       /\ parts[Len(parts)][2] \in {"Entitlement Check", "Entitlement Check v2"}

RowKey(row) == <<row.Position, row.ID, row.FullPath>>

\* C18: the rows main hands to integrate_toggles are exactly the tree rows
\* with an earlier part labelled "Check Permissions" and a last part whose
\* label starts with "Entitlement Check"
C18_HandedRowsExact ==
    pc = "filtered" =>
        {RowKey(merged_df[r]) : r \in 1..Len(merged_df)}
            = {RowKey(df_policy_tree[t]) :
                   t \in {u \in 1..Len(df_policy_tree) :
                              IsEntitlementCheckRow(df_policy_tree[u])}}

-----------------------------------------------------------------------------
(* Toggle integration (toggles.py).                                          *)
(*                                                                           *)
(* A text that the code takes apart character by character, or matches with  *)
(* a regular expression, is the sequence of its pieces.  A piece is one      *)
(* character, except that a word of a fixed label ("Check", "Permissions",   *)
(* "Entitlement", "PolicySet", "Policy", "Root", "Other") is one piece.  No  *)
(* name of the model starts or ends inside such a word, so a match never     *)
(* begins or ends in the middle of a piece.  A text that is absent (None) is *)
(* NoneText.  An action string is the sequence of its ";"-joined parts, as   *)
(* Value_action is.                                                          *)

NoneText == <<None>>

UpperCase == <<"A", "B", "C", "D", "E", "F", "G", "H", "I", "J", "K", "L", "M",
               "N", "O", "P", "Q", "R", "S", "T", "U", "V", "W", "X", "Y", "Z",
               "Check", "Permissions", "Entitlement", "PolicySet", "Policy", "Root",
               "Other">>
LowerCase == <<"a", "b", "c", "d", "e", "f", "g", "h", "i", "j", "k", "l", "m",
               "n", "o", "p", "q", "r", "s", "t", "u", "v", "w", "x", "y", "z",
               "check", "permissions", "entitlement", "policyset", "policy", "root",
               "other">>

\* str.lower and str.upper on one piece; upper is only applied to characters
LowerOf ==
    [c \in Range(UpperCase) |-> LowerCase[CHOOSE i \in DOMAIN UpperCase : UpperCase[i] = c]]
UpperOf ==
    [c \in Range(LowerCase) |-> UpperCase[CHOOSE i \in DOMAIN LowerCase : LowerCase[i] = c]]
lower_piece(c) == IF c \in DOMAIN LowerOf THEN LowerOf[c] ELSE c
upper_piece(c) == IF c \in DOMAIN UpperOf THEN UpperOf[c] ELSE c

lower(t) == [i \in 1..Len(t) |-> lower_piece(t[i])]
upper(t) == [i \in 1..Len(t) |-> upper_piece(t[i])]
capitalize(t) == IF t = <<>> THEN t ELSE <<upper_piece(t[1])>> \o lower(Tail(t))

\* t.startswith(p, i), i counted from 1
text_startswith(t, p, i) ==
    i + Len(p) - 1 <= Len(t) /\ SubSeq(t, i, i + Len(p) - 1) = p

\* sep.join(parts)
RECURSIVE str_join(_, _)
str_join(sep, parts) ==
    IF parts = <<>> THEN <<>>
    ELSE IF Len(parts) = 1 THEN parts[1]
    ELSE parts[1] \o sep \o str_join(sep, Tail(parts))

\* t.replace(old, new): the occurrences from left to right, not overlapping
RECURSIVE replace(_, _, _)
replace(t, old, new) ==
    IF t = <<>> THEN <<>>
    ELSE IF text_startswith(t, old, 1)
         THEN new \o replace(SubSeq(t, Len(old) + 1, Len(t)), old, new)
         ELSE <<Head(t)>> \o replace(Tail(t), old, new)

\* toggles.py:15-20
special_map_keys ==
    << <<"w", "l", "o", "p", "e", "n", "b", "a", "n", "k", "i", "n", "g">>,
       <<"w", "l", "e", "x", "t", "e", "r", "n", "a", "l", "o", "p", "e", "r", "a", "t", "o", "r">>,
       <<"i", "b", "p", "r", "o", "s", "p", "e", "c", "t">>,
       <<"o", "p", "e", "n", "d", "a", "t", "a">> >>
special_map_values ==
    << <<"W", "h", "i", "t", "e", " ", "L", "a", "b", "e", "l", " ", "O", "p", "e", "n", " ",
         "B", "a", "n", "k", "i", "n", "g">>,
       <<"W", "h", "i", "t", "e", " ", "L", "a", "b", "e", "l", " ", "E", "x", "t", "e", "r",
         "n", "a", "l", " ", "O", "p", "e", "r", "a", "t", "o", "r">>,
       <<"I", "B", " ", "P", "r", "o", "s", "p", "e", "c", "t">>,
       <<"O", "p", "e", "n", " ", "D", "a", "t", "a">> >>

\* toggles.py:46
known_tokens ==
    << <<"i", "b">>, <<"o", "p", "e", "n">>, <<"d", "a", "t", "a">>, <<"b", "a", "n", "k">>,
       <<"p", "r", "o", "s", "p", "e", "c", "t">>, <<"e", "x", "t", "e", "r", "n", "a", "l">>,
       <<"o", "p", "e", "r", "a", "t", "o", "r">> >>

\* toggles.py:50  sorted(known_tokens, key=len, reverse=True): a stable sort,
\* the longest first and tokens of one length in the order of the list
tokens_longest_first ==
    LET longest_len == MaxOf({Len(known_tokens[i]) : i \in DOMAIN known_tokens})
    IN Flatten([k \in 1..longest_len |->
                   SelectSeq(known_tokens, LAMBDA t : Len(t) = longest_len + 1 - k)])

\* toggles.py:47-58: the tokens of lower_word from character i on
RECURSIVE split_tokens(_, _)
split_tokens(lower_word, i) ==
    IF i > Len(lower_word) THEN <<>>
    ELSE LET matched == SelectSeq(tokens_longest_first,
                                  LAMBDA t : text_startswith(lower_word, t, i))
         IN IF matched # <<>>
            THEN <<capitalize(matched[1])>> \o split_tokens(lower_word, i + Len(matched[1]))
            ELSE <<upper(<<lower_word[i]>>)>> \o split_tokens(lower_word, i + 1)

\* toggles.py:34-61
generic_split(word) == str_join(<<" ">>, split_tokens(lower(word), 1))

\* toggles.py:7-31
normalize_tenant_name(name) ==
    IF name = <<>> \/ name = NoneText THEN name
    ELSE LET lower_name == lower(name)
             hits == {k \in DOMAIN special_map_keys : special_map_keys[k] = lower_name}
         IN IF hits # {} THEN special_map_values[CHOOSE k \in hits : TRUE]
            ELSE IF text_startswith(lower_name, <<"w", "l">>, 1)
                 THEN <<"W", "h", "i", "t", "e", " ", "L", "a", "b", "e", "l", " ">>
                          \o generic_split(SubSeq(name, Len(<<"w", "l">>) + 1, Len(name)))
                 ELSE generic_split(name)

CheckPermissions == <<"Check", " ", "Permissions">>
EntitlementCheck == <<"Entitlement", " ", "Check">>

\* toggles.py:64-86
build_regex_path_for_toggle(tenant_name, nested_names, version) ==
    LET tenant_part == IF tenant_name = <<>> \/ tenant_name = NoneText THEN <<>>
                       ELSE <<"*">> \o normalize_tenant_name(tenant_name) \o <<"*", "/">>
        nested_parts == Flatten([k \in 1..Len(nested_names) |->
                                    <<"*">> \o nested_names[k] \o <<"*", "/">>])
        version_part == IF version = NoneText \/ version = <<>> THEN <<>>
                        ELSE <<"*">> \o version \o <<"*">>
    IN CheckPermissions \o <<"*", "/">> \o tenant_part \o nested_parts
           \o <<"*">> \o EntitlementCheck \o <<"*">> \o version_part

\* toggles.py:119, 186
FallbackPath == <<"*", "/", " ", "*">> \o EntitlementCheck \o <<"*">>

\* toggles.py:131-132: the keys of a node that hold a dict or a list, in the
\* order of the node's items; in the model that is "versions", a list
ContainerKeys == <<"versions">>

\* toggles.py:89-137: the records the call appends to results.  A node is a
\* dict; the list branch (135-137) is the walk over the items of a list.
RECURSIVE collect_disabled_regex(_, _, _, _, _)
RECURSIVE collect_list(_, _, _, _, _)
collect_disabled_regex(env, action_val, node, path_parts, tenant) ==
    LET named == "name" \in DOMAIN node /\ node.name # <<>>
        is_tenant == tenant = NoneText /\ named
        tenant1 == IF is_tenant THEN node.name ELSE tenant
        new_parts == IF ~is_tenant /\ named THEN Append(path_parts, node.name)
                     ELSE path_parts
        version == IF named /\ text_startswith(lower(node.name), <<"v">>, 1)
                   THEN node.name ELSE NoneText
        regex_path ==
            IF tenant1 # NoneText
            THEN build_regex_path_for_toggle(
                     tenant1,
                     IF version # NoneText THEN SubSeq(new_parts, 1, Len(new_parts) - 1)
                     ELSE new_parts,
                     version)
            ELSE FallbackPath \o (IF version # NoneText THEN <<"*">> \o version \o <<"*">>
                                  ELSE <<>>)
        own == IF "isEnabled" \in DOMAIN node /\ ~node.isEnabled
               THEN <<[Env |-> env, Action |-> action_val, Path |-> regex_path,
                       Snippet |-> node]>>
               ELSE <<>>
        keys == SelectSeq(ContainerKeys, LAMBDA k : k \in DOMAIN node)
    IN own \o Flatten([j \in 1..Len(keys) |->
                          collect_list(env, action_val, node[keys[j]], new_parts, tenant1)])
collect_list(env, action_val, items, path_parts, tenant) ==
    Flatten([j \in 1..Len(items) |->
                collect_disabled_regex(env, action_val, items[j], path_parts, tenant)])

\* toggles.py:140-147
regex_from_path(regex_path) ==
    replace(replace(regex_path, <<"*", "/">>, <<".", "*">>), <<"*">>, <<".", "*">>)

\* re.compile: the elements of the pattern.  ".*" is the starred dot, "." the
\* dot, "(" and ")" open and close a group, every other piece stands for
\* itself.  After regex_from_path every "*" follows a ".".
RECURSIVE re_elements(_)
re_elements(pattern) ==
    IF pattern = <<>> THEN <<>>
    ELSE IF text_startswith(pattern, <<".", "*">>, 1)
         THEN <<".*">> \o re_elements(SubSeq(pattern, Len(<<".", "*">>) + 1, Len(pattern)))
         ELSE <<Head(pattern)>> \o re_elements(Tail(pattern))

\* re.compile raises re.error on a parenthesis that is not balanced
RECURSIVE balanced(_, _)
balanced(pattern, depth) ==
    IF pattern = <<>> THEN depth = 0
    ELSE IF Head(pattern) = "(" THEN balanced(Tail(pattern), depth + 1)
    ELSE IF Head(pattern) = ")" THEN depth > 0 /\ balanced(Tail(pattern), depth - 1)
    ELSE balanced(Tail(pattern), depth)
re_error(pattern) == ~balanced(pattern, 0)

\* the match of the elements at the start of text s, ignoring case
RECURSIVE match_at(_, _)
match_at(re, s) ==
    IF re = <<>> THEN TRUE
    ELSE IF Head(re) = ".*"
         THEN \E k \in 0..Len(s) : match_at(Tail(re), SubSeq(s, k + 1, Len(s)))
    ELSE IF Head(re) \in {"(", ")"} THEN match_at(Tail(re), s)
    ELSE IF Head(re) = "." THEN s # <<>> /\ match_at(Tail(re), Tail(s))
    ELSE s # <<>> /\ lower_piece(Head(s)) = lower_piece(Head(re))
                  /\ match_at(Tail(re), Tail(s))

\* toggles.py:219  Series.str.contains(pattern, case=False, regex=True) on one
\* value: re.search
contains(s, pattern) ==
    LET re == re_elements(pattern)
    IN \E k \in 0..Len(s) : match_at(re, SubSeq(s, k + 1, Len(s)))

\* dict.get(k, default)
GetOr(d, k, default) == IF k \in DOMAIN d THEN d[k] ELSE default

\* toggles.py:178-192: the records of one checkPermissions entry
cp_results(env, cp) ==
    LET action_val == GetOr(cp, "action", <<>>)
        tenants == GetOr(cp, "tenants", <<>>)
        own == IF "isEnabled" \in DOMAIN cp /\ ~cp.isEnabled /\ tenants = <<>>
               THEN <<[Env |-> env, Action |-> action_val, Path |-> FallbackPath,
                       Snippet |-> cp]>>
               ELSE <<>>
    IN own \o collect_list(env, action_val, tenants, <<>>, NoneText)

\* toggles.py:171-192: a file that does not load has no tdata and is skipped
file_results(f) ==
    IF "tdata" \notin DOMAIN f THEN <<>>
    ELSE LET cps == GetOr(GetOr(f.tdata, "toggles", EmptyDict), "checkPermissions", <<>>)
         IN Flatten([j \in 1..Len(cps) |-> cp_results(f.env, cps[j])])

\* toggles.py:178: tdata.get("toggles", {}).get(...) of a document whose
\* "toggles" is null raises AttributeError, which nothing catches; NullValue
\* stands for a JSON null where a dict is looked for
NullValue == [null |-> TRUE]
document_raises(f) ==
    "tdata" \in DOMAIN f /\ "toggles" \in DOMAIN f.tdata /\ f.tdata.toggles = NullValue

\* the results when a file that does not load ends the loop
all_results_until_failure(files) ==
    LET S == {j \in 1..Len(files) : "tdata" \notin DOMAIN files[j]}
        n == IF S = {} THEN Len(files) ELSE MinOf(S) - 1
    IN Flatten([j \in 1..n |-> file_results(files[j])])

\* toggles.py:168-194
all_results(files) == Flatten([j \in 1..Len(files) |-> file_results(files[j])])

\* toggles.py:197-199: a blank column for every environment the table lacks
ensure_env_columns(df, files) ==
    [r \in 1..Len(df) |-> df[r] @@ [e \in {files[j].env : j \in 1..Len(files)} |-> ""]]

\* a mask that leaves the action comparison out, used to compare against mask
mask_path_only(record, row) ==
    contains(row.FullPath, regex_from_path(record.Path))

\* toggles.py:218-219: the mask of one record at one row
mask(record, row) ==
    /\ row.Value_action = record.Action
    /\ contains(row.FullPath, regex_from_path(record.Path))

\* a write that flips the cell, used to compare against off_value
off_value_flip(old) == IF old = "OFF" THEN "" ELSE "OFF"
\* toggles.py:225: the value written to a matching row
off_value(old) == "OFF"

\* toggles.py:208-228: one pass of the loop over df_toggles
TogStart(df, records) == [df |-> df, missing |-> <<>>, i |-> 1, records |-> records]
apply_step(st) ==
    LET record == st.records[st.i]
        hit == {r \in 1..Len(st.df) : mask(record, st.df[r])}
    IN IF re_error(regex_from_path(record.Path))
       THEN [st EXCEPT !.i = st.i + 1]
       ELSE IF hit # {}
       THEN [st EXCEPT !.i = st.i + 1,
                       !.df = [r \in 1..Len(st.df) |->
                                  IF r \in hit
                                  THEN [st.df[r] EXCEPT ![record.Env] = off_value(@)]
                                  ELSE st.df[r]]]
       ELSE [st EXCEPT !.i = st.i + 1, !.missing = Append(st.missing, record)]

RECURSIVE apply_run(_)
apply_run(st) == IF st.i > Len(st.records) THEN st ELSE apply_run(apply_step(st))

\* toggles.py:150-244 as a function: the returned merged_df and df_missing
\* for the records taken in the given order
integrate_records(df, files, records) ==
    IF files = <<>> THEN [df |-> df, missing |-> <<>>]
    ELSE LET end == apply_run(TogStart(ensure_env_columns(df, files), records))
         IN [df |-> end.df, missing |-> end.missing]
integrate_toggles(df, files) == integrate_records(df, files, all_results(files))

\* toggles.py:164-203: the call up to the loop
IntegrateToggles ==
    /\ pc = "tog_start"
    /\ \A j \in 1..Len(toggle_files) : ~document_raises(toggle_files[j])
    /\ IF toggle_files = <<>>
       THEN /\ pc' = "tog_done"
            /\ UNCHANGED <<merged_df, df_toggles, trow>>
       ELSE /\ df_toggles' = all_results(toggle_files)
            /\ merged_df' = ensure_env_columns(merged_df, toggle_files)
            /\ trow' = 1
            /\ pc' = IF df_toggles' = <<>> THEN "tog_done" ELSE "tog_apply"
    /\ missing_records' = <<>>
    /\ UNCHANGED <<toggle_files, styles, pre_df, stack, idx, pickVars, graphVars, pipeVars,
                   opVars>>

\* toggles.py:171-178: the loop over the files comes to a document it
\* cannot read as a dict of dicts
IntegrateTogglesAttributeError ==
    /\ pc = "tog_start"
    /\ \E j \in 1..Len(toggle_files) : document_raises(toggle_files[j])
    /\ pc' = "raised_AttributeError"
    /\ UNCHANGED <<propVars, togVars, pickVars, graphVars, pipeVars, opVars>>

\* toggles.py:208-228: one record
ApplyToggle ==
    /\ pc = "tog_apply"
    /\ trow <= Len(df_toggles)
    /\ LET st == apply_step([df |-> merged_df, missing |-> missing_records, i |-> trow,
                             records |-> df_toggles])
       IN /\ merged_df' = st.df
          /\ missing_records' = st.missing
          /\ trow' = st.i
    /\ UNCHANGED <<pc, toggle_files, df_toggles, styles, pre_df, stack, idx, pickVars,
                   graphVars, pipeVars, opVars>>

\* toggles.py:230-244
TogReturn ==
    /\ pc = "tog_apply"
    /\ trow > Len(df_toggles)
    /\ pc' = "tog_done"
    /\ UNCHANGED <<propVars, togVars, pickVars, graphVars, pipeVars, opVars>>

-----------------------------------------------------------------------------
(* Specification SpecToggles: integrate_toggles on a table of entitlement    *)
(* rows without environment columns and the toggle files of one or two       *)
(* environments.                                                             *)

\* the text holds t as a run of consecutive pieces
HasText(text, t) == \E k \in 0..Len(text) : text_startswith(text, t, k + 1)

\* "PolicySet:Root / PolicySet:Check Permissions / ..." : policy_tree.py joins
\* the "<originType>:<name>" parts with " / "
PathText(parts) ==
    str_join(<<" ", "/", " ">>,
             [k \in 1..Len(parts) |-> <<parts[k][1], ":">> \o parts[k][2]])

Edge == <<"E", "D", "G", "E">>
EdgeSpelled == <<"E", " ", "D", " ", "G", " ", "E">>
WhiteLabelIb == <<"W", "h", "i", "t", "e", " ", "L", "a", "b", "e", "l", " ", "I", "b">>
VersionTwo == <<"v", "2">>

TogPath(tenant_label, leaf_label) ==
    PathText(<< <<"PolicySet", <<"Root">>>>, <<"PolicySet", CheckPermissions>>,
                <<"PolicySet", tenant_label>>, <<"Policy", leaf_label>> >>)

TogPaths ==
    { TogPath(Edge, EntitlementCheck),
      TogPath(EdgeSpelled, EntitlementCheck),
      TogPath(WhiteLabelIb, EntitlementCheck \o <<" ">> \o VersionTwo),
      PathText(<< <<"PolicySet", <<"Root">>>>, <<"PolicySet", <<"Other">>>>,
                  <<"Policy", lower(EntitlementCheck)>> >>) }

ActionFooBar == <<"action:foo/bar">>
TogActions == {ActionFooBar, <<"action:b">>}

\* every path under "action:foo/bar", two of them under "action:b" as well
TogRows ==
    [FullPath : TogPaths, Value_action : {ActionFooBar}]
        \cup [FullPath : {p \in TogPaths : HasText(p, EdgeSpelled) \/ HasText(p, <<"Other">>)},
              Value_action : TogActions \ {ActionFooBar}]

\* the tenant names of the toggle documents: "EDGE", "wlib", "A(", "opendata"
TenantNames == {Edge, <<"w", "l", "i", "b">>, <<"A", "(">>, <<"o", "p", "e", "n", "d", "a", "t", "a">>}

DisabledVersion == [name |-> VersionTwo, isEnabled |-> FALSE]

Tenants ==
    {[name |-> n, isEnabled |-> b] : n \in TenantNames, b \in BOOLEAN}
        \cup {[name |-> n, isEnabled |-> b, versions |-> <<DisabledVersion>>] :
                 n \in {Edge, <<"w", "l", "i", "b">>}, b \in BOOLEAN}
        \cup {[isEnabled |-> FALSE]}

TenantLists ==
    {<<t>> : t \in Tenants}
        \cup {<<[name |-> a, isEnabled |-> FALSE], [name |-> b, isEnabled |-> FALSE]>> :
                 a \in TenantNames, b \in {Edge, <<"A", "(">>}}

Cps ==
    {[action |-> ActionFooBar, tenants |-> l] : l \in TenantLists}
        \cup {[action |-> a, isEnabled |-> FALSE] : a \in TogActions}
        \cup {[action |-> ActionFooBar, isEnabled |-> FALSE,
               tenants |-> <<[name |-> Edge, isEnabled |-> FALSE]>>],
              [isEnabled |-> FALSE, tenants |-> <<>>]}

Tdata(cps) == [toggles |-> [checkPermissions |-> cps]]

SecondEnvCps ==
    { <<[action |-> ActionFooBar, tenants |-> <<[name |-> Edge, isEnabled |-> FALSE]>>]>>,
      <<[action |-> ActionFooBar, isEnabled |-> FALSE]>> }

ToggleFiles ==
    {<<>>, <<[env |-> "SIT1"]>>, <<[env |-> "SIT1", tdata |-> EmptyDict]>>}
        \cup {<<[env |-> "SIT1", tdata |-> Tdata(<<cp>>)]>> : cp \in Cps}
        \cup {<<[env |-> "SIT1", tdata |-> Tdata(a)], [env |-> "UAT1", tdata |-> Tdata(b)]>> :
                 a \in SecondEnvCps, b \in SecondEnvCps}
        \cup UNION {{<<[env |-> "SIT1"], [env |-> "UAT1", tdata |-> Tdata(a)]>>,
                     <<[env |-> "SIT1", tdata |-> Tdata(a)], [env |-> "UAT1"]>>,
                     <<[env |-> "SIT1", tdata |-> Tdata(a)],
                       [env |-> "UAT1", tdata |-> [toggles |-> NullValue]]>>,
                     <<[env |-> "SIT1", tdata |-> [toggles |-> NullValue]],
                       [env |-> "UAT1", tdata |-> Tdata(a)]>>} : a \in SecondEnvCps}

InitToggles ==
    /\ pc = "tog_start"
    /\ merged_df \in UNION {[1..n -> TogRows] : n \in 0..MaxTogRows}
    /\ pre_df = merged_df
    /\ stack = <<>>
    /\ idx = 0
    /\ toggle_files \in ToggleFiles
    /\ df_toggles = <<>>
    /\ missing_records = <<>>
    /\ trow = 0
    /\ styles = <<>>
    /\ IdlePick
    /\ IdleGraph
    /\ IdlePipe
    /\ IdleOp

NextToggles == IntegrateToggles \/ IntegrateTogglesAttributeError \/ ApplyToggle \/ TogReturn

SpecToggles == InitToggles /\ [][NextToggles]_vars

-----------------------------------------------------------------------------
(* Claims on SpecToggles *)

\* a record's pattern is a regular expression that matches the row's path
PatternMatches(record, row) ==
    /\ ~re_error(regex_from_path(record.Path))
    /\ contains(row.FullPath, regex_from_path(record.Path))

\* the record applies to the row: same action and a matching pattern
AppliesTo(record, row) ==
    row.Value_action = record.Action /\ PatternMatches(record, row)

\* C14: every disabled-toggle record the loop handles ends in exactly one of
\* two outcomes, "OFF" on at least one matching row or an entry in
\* missing_records, and a record that matches no row leaves the table as it is
C14_RecordOutcome ==
    [][(pc = "tog_apply" /\ trow <= Len(df_toggles)) =>
          LET record == df_toggles[trow]
              applied == \E r \in 1..Len(merged_df) :
                             /\ AppliesTo(record, merged_df[r])
                             /\ merged_df'[r][record.Env] = "OFF"
              reported == missing_records' = Append(missing_records, record)
          IN /\ applied # reported
             /\ (\A r \in 1..Len(merged_df) : ~AppliesTo(record, merged_df[r]))
                    => merged_df' = merged_df]_vars

\* Scenario C: the toggle file of SIT1 disables tenant "EDGE" under the
\* action "action:foo/bar"
ScenarioCFiles ==
    <<[env |-> "SIT1",
       tdata |-> Tdata(<<[action |-> ActionFooBar,
                          tenants |-> <<[name |-> Edge, isEnabled |-> FALSE]>>]>>)]>>

ScenarioCRow(row) ==
    /\ HasText(row.FullPath, CheckPermissions)
    /\ HasText(row.FullPath, Edge)
    /\ HasText(row.FullPath, EntitlementCheck)
    /\ row.Value_action = ActionFooBar

\* C15: Scenario C.  With the toggle file of SIT1 disabling tenant "EDGE"
\* under "action:foo/bar", the pattern of the record matches every row whose
\* path holds "Check Permissions", "EDGE" and "Entitlement Check" and whose
\* action is "action:foo/bar", and the row's SIT1 column is "OFF" when
\* integrate_toggles returns
C15_ScenarioC ==
    (pc = "tog_done" /\ toggle_files = ScenarioCFiles) =>
        \A r \in 1..Len(merged_df) :
            ScenarioCRow(merged_df[r]) =>
                /\ \E k \in 1..Len(df_toggles) : PatternMatches(df_toggles[k], merged_df[r])
                /\ merged_df[r].SIT1 = "OFF"

\* the environments toggle_files names
Envs == {toggle_files[j].env : j \in 1..Len(toggle_files)}

\* the disabled-toggle records of environment e's document
RecordsOf(e) ==
    LET own == SelectSeq(toggle_files, LAMBDA f : f.env = e)
    IN Range(all_results(own))

\* C16: when integrate_toggles returns on rows that had no environment
\* column, for every row and every environment with a toggle document the
\* column is "OFF" if and only if some disabled-toggle record of that
\* environment's document has the row's action and a pattern that matches
\* the row's path, and it is blank otherwise
C16_OffIffRecordApplies ==
    pc = "tog_done" =>
        \A r \in 1..Len(merged_df) : \A e \in Envs :
            merged_df[r][e] =
                IF \E record \in RecordsOf(e) : AppliesTo(record, pre_df[r])
                THEN "OFF" ELSE ""

C16_Witness ==
    /\ pc = "tog_done"
    /\ {"SIT1", "UAT1"} \subseteq Envs
    /\ \E r \in 1..Len(merged_df) : merged_df[r].SIT1 = "OFF"
    /\ \E r \in 1..Len(merged_df) :
          /\ merged_df[r].UAT1 = ""
          /\ \E record \in RecordsOf("UAT1") :
                PatternMatches(record, pre_df[r]) /\ record.Action # pre_df[r].Value_action

\* the orders in which the records of df_toggles can be taken
RecordOrders == {[k \in 1..Len(df_toggles) |-> df_toggles[o[k]]] : o \in Orderings(1..Len(df_toggles))}

EnvColumns(df) == [r \in 1..Len(df) |-> [e \in Envs |-> df[r][e]]]

\* C17: toggle idempotence.  When integrate_toggles returns, a second call
\* with the same toggle files on the returned table leaves every environment
\* column as it is, and taking the records in any other order on the
\* original table gives the same environment columns
C17_ToggleIdempotent ==
    pc = "tog_done" =>
        /\ EnvColumns(integrate_toggles(merged_df, toggle_files).df) = EnvColumns(merged_df)
        /\ \A records \in RecordOrders :
              EnvColumns(integrate_records(pre_df, toggle_files, records).df)
                  = EnvColumns(merged_df)

C17_Witness ==
    /\ pc = "tog_done"
    /\ Len(df_toggles) > 1
    /\ \E r \in 1..Len(merged_df) : \E e \in Envs : merged_df[r][e] = "OFF"
    /\ \E r \in 1..Len(merged_df) : \E e \in Envs : merged_df[r][e] = ""

-----------------------------------------------------------------------------
(* Drift classification: the row colouring of the HTML export                *)
(* (exporters.py:22-32) and of the dashboard (app.py:108-117).  A cell of an *)
(* environment column is a string or NaN.                                    *)

NaNCell == "<NaN>"

\* str(v).strip() and str(v).upper() on the cell values of the model
strip_cell(v) == IF v = " " THEN "" ELSE v
upper_cell(v) == IF v = "off" THEN "OFF" ELSE IF v = "on" THEN "ON" ELSE v

\* exporters.py:16, app.py:109: the columns whose name starts with SIT, UAT
\* or PROD, whatever the case
EnvPrefixed == {"SIT1", "UAT1", "PROD", "sit2"}
env_cols(row) == {c \in DOMAIN row : c \in EnvPrefixed}

\* exporters.py:23
export_vals(row) == {strip_cell(row[c]) : c \in {d \in env_cols(row) : row[d] # NaNCell}}

\* exporters.py:24
export_drift(row) == Cardinality(export_vals(row)) > 1

\* exporters.py:25
export_all_off(row) == \A v \in export_vals(row) : v # "" => upper_cell(v) = "OFF"

\* exporters.py:26
export_is_root(row) == row.FullPath = <<"PolicySet", ":", "Root">>

\* exporters.py:27-32: the style of the row, by its colour
export_row_style(row) ==
    IF export_is_root(row) THEN ""
    ELSE IF export_all_off(row) THEN "red"
    ELSE IF export_drift(row) THEN "amber"
    ELSE ""

\* app.py:110
styler_env_values(row) ==
    {upper_cell(row[c]) : c \in {d \in env_cols(row) :
                                    row[d] # NaNCell /\ strip_cell(row[d]) # ""}}

\* app.py:108-117
drift_styler(row) ==
    IF styler_env_values(row) = {} THEN ""
    ELSE IF \A v \in styler_env_values(row) : v = "OFF" THEN "red"
    ELSE IF Cardinality(styler_env_values(row)) > 1 THEN "amber"
    ELSE ""

\* exporters.py:22-34: the export styles every row of the table
ExportEnvironmentDriftHtml ==
    /\ pc = "drift_start"
    /\ styles' = [r \in 1..Len(merged_df) |-> export_row_style(merged_df[r])]
    /\ pc' = "exported"
    /\ UNCHANGED <<toggle_files, df_toggles, missing_records, trow, propVars, pickVars,
                   graphVars, pipeVars, opVars>>

\* app.py:119-121: the dashboard applies drift_styler to every row
DriftStyler ==
    /\ pc = "drift_start"
    /\ styles' = [r \in 1..Len(merged_df) |-> drift_styler(merged_df[r])]
    /\ pc' = "styled"
    /\ UNCHANGED <<toggle_files, df_toggles, missing_records, trow, propVars, pickVars,
                   graphVars, pipeVars, opVars>>

-----------------------------------------------------------------------------
(* Specification SpecDrift: the two classifications of one row with the      *)
(* environment columns SIT1 and UAT1.                                        *)

CellValues == {"OFF", "ON", "", " ", "off", NaNCell}

DriftPaths == {<<"PolicySet", ":", "Root">>, TogPath(Edge, EntitlementCheck)}

DriftRows ==
    [FullPath : DriftPaths, Value_action : {ActionFooBar}, SIT1 : CellValues, UAT1 : CellValues]

InitDrift ==
    /\ pc = "drift_start"
    /\ merged_df \in {<<row>> : row \in DriftRows}
    /\ pre_df = <<>>
    /\ stack = <<>>
    /\ idx = 0
    /\ IdlePick
    /\ IdleGraph
    /\ IdlePipe
    /\ IdleTog
    /\ IdleOp

NextDrift == ExportEnvironmentDriftHtml \/ DriftStyler

SpecDrift == InitDrift /\ [][NextDrift]_vars

-----------------------------------------------------------------------------
(* Claims on SpecDrift.  A row is classified by the colour it is given:      *)
(* amber is drifting, red is fully off.                                      *)

\* the non-blank values of the row's environment columns, whatever their case
NonBlank(row) ==
    {upper_cell(row[c]) : c \in {d \in env_cols(row) : row[d] \notin {NaNCell, "", " "}}}

Classified == pc \in {"exported", "styled"}

\* the rows other than the root row, which the export never colours
ClassifiedRows == {r \in 1..Len(merged_df) : merged_df[r].FullPath # <<"PolicySet", ":", "Root">>}

\* C19: a row is classified as drifting exactly when its non-blank
\* environment values hold more than one distinct value, and as fully off
\* exactly when all its non-blank environment values equal "OFF"
C19_DriftClassification ==
    Classified =>
        \A r \in ClassifiedRows :
            /\ styles[r] = "amber" <=> Cardinality(NonBlank(merged_df[r])) > 1
            /\ styles[r] = "red" <=> \A v \in NonBlank(merged_df[r]) : v = "OFF"

\* C20: Scenario E.  A row on which one environment is "OFF" and the other
\* is "ON" or blank is classified as drifting
C20_ScenarioE ==
    Classified =>
        \A r \in ClassifiedRows :
            (merged_df[r].SIT1 = "OFF" /\ merged_df[r].UAT1 \in {"ON", ""})
                => styles[r] = "amber"

-----------------------------------------------------------------------------
(* build_policy_tree on packages with dangling links, a cyclic hierarchy,   *)
(* nodes that lack keys and condition definitions that share a name         *)

\* policy_tree.py:12-22: a table cannot be built
TreeTablesKeyError ==
    /\ pc = "tree_start"
    /\ lookup_tables_raise
    /\ pc' = "raised_KeyError"
    /\ UNCHANGED <<pipeVars, pickVars, propVars, graphVars, togVars, opVars>>

\* policy_tree.py:58: one call of traverse more than the interpreter allows
\* raises RecursionError, which nothing catches
TreeRecursionError ==
    /\ pc = "tree_run"
    /\ tr.frames # <<>>
    /\ Len(tr.frames) > RecursionLimit
    /\ pc' = "raised_RecursionError"
    /\ UNCHANGED <<pipeVars, pickVars, propVars, graphVars, togVars, opVars>>

PackageHeader ==
    <<[id |-> "pk", class |-> "Package", rootEntityId |-> "R", rootEntityName |-> "Root"]>>

\* tZ names no node at all, tX a TargetMatchNode whose Metadata node is
\* missing, tR a TargetMatchNode that points back to the root
LoosePackages ==
    {Pkg(PackageHeader, "Root",
         <<Cd("cd1", "R", l1), Cd("cd2", "A", l2), Tmn("tR", "R")>>, <<>>) :
        l1 \in InputLists({"tA", "tX", "tZ"}), l2 \in InputLists({"tB", "tR", "tZ"})}

\* nodes that lack a key one of the tables reads
KeylessNodes ==
    { [id |-> "mQ", class |-> "Metadata", originType |-> "Policy", name |-> "Other"],
      [class |-> "CombinedDecisionNode", originLink |-> "A", inputNodes |-> <<"tB">>],
      [id |-> "cdQ", class |-> "CombinedDecisionNode", inputNodes |-> <<"tB">>],
      [class |-> "TargetMatchNode", metadataId |-> "B"] }

KeylessPackages ==
    {Pkg(PackageHeader, "Root", <<Cd("cd1", "R", <<"tA">>), n>>, <<>>) : n \in KeylessNodes}

\* T9 bears the name of T1 and T8 the empty name; no node refers to either
SharedNamePackages ==
    {Pkg(PackageHeader, "Root", c1 \o <<Cd("cd2", "A", <<"tB">>)>>, cond_part) :
        c1 \in CdShapes("cd1", "R", {"tA"}, {"rT1", "gTie"}),
        cond_part \in {CondPart,
                       <<Def("T9", <<"POLICY", "TARGETING", "ACTION", "FOO">>, "kB")>>
                           \o CondPart,
                       CondPart
                           \o <<Def("T9", <<"POLICY", "TARGETING", "ACTION", "FOO">>, "kB")>>,
                       <<Def("T8", EmptyName, "kB")>> \o CondPart}}

InitTree ==
    /\ pc = "tree_start"
    /\ data \in LoosePackages \cup KeylessPackages \cup SharedNamePackages
    /\ start = ""
    /\ rc = IdleRc
    /\ cc = IdleCc
    /\ IdlePick
    /\ IdleProp
    /\ IdlePipe
    /\ IdleTog
    /\ IdleOp

NextTree ==
    \/ TreeStart
    \/ TreeStep
    \/ TreeReturn
    \/ TreeTablesKeyError
    \/ TreeRecursionError

SpecTree == InitTree /\ [][NextTree]_vars

TreeRows == Range(df_policy_tree)

\* the input e is the id of a TargetMatchNode whose metadataId is the
\* originId M of a Metadata node of the package
resolves_to(e, M) ==
    /\ ~Falsy(id_lookup(e))
    /\ Get(id_lookup(e), "class") = "TargetMatchNode"
    /\ Get(id_lookup(e), "metadataId") = M
    /\ \E k \in 1..Len(data) : is_metadata(data[k]) /\ Get(data[k], "originId") = M

dangling(e) == \A k \in 1..Len(data) : ~resolves_to(e, Get(data[k], "originId"))

\* C21: when the tree has been built, the rows below a row are exactly those
\* of the inputNodes entries that resolve to a Metadata node, each at the
\* 1-based index of its entry: a dangling entry gives no row and takes
\* nothing from the ordinals of its siblings.
C21_DanglingSkipped ==
    pc = "extract_actions" =>
        /\ \A c \in TreeRows :
              Len(c.Position) > 1 =>
                 \E r \in TreeRows :
                    /\ r.Position = SubSeq(c.Position, 1, Len(c.Position) - 1)
                    /\ \E cd \in Range(origin_to_cdnode(r.ID)) :
                          LET i == c.Position[Len(c.Position)]
                          IN /\ i <= Len(GetList(cd, "inputNodes"))
                             /\ resolves_to(GetList(cd, "inputNodes")[i], c.ID)
        /\ \A r \in TreeRows :
              \A cd \in Range(origin_to_cdnode(r.ID)) :
                 \A i \in 1..Len(GetList(cd, "inputNodes")) :
                    ~dangling(GetList(cd, "inputNodes")[i]) =>
                       \E c \in TreeRows :
                          /\ c.Position = Append(r.Position, i)
                          /\ resolves_to(GetList(cd, "inputNodes")[i], c.ID)

\* a built tree in which a dangling entry comes before a sibling that has
\* its row, with both kinds of dangling entry in the package
C21_Witness ==
    /\ pc = "extract_actions"
    /\ \E r \in TreeRows :
          \E cd \in Range(origin_to_cdnode(r.ID)) :
             /\ Len(GetList(cd, "inputNodes")) = 2
             /\ cd.inputNodes[1] \in {"tX", "tZ"}
             /\ dangling(cd.inputNodes[1])
             /\ \E c \in TreeRows : c.Position = Append(r.Position, 2)

\* C22: building the lookup tables never raises.
C22_TablesNeverRaise == pc # "raised_KeyError"

\* C24: the traversal of every package comes to an end by returning its
\* rows: it never nests more calls of traverse than the interpreter allows.
C24_BuildReturns == pc # "raised_RecursionError"

\* the ids of the definitions referenced from the guardNode of a decision
\* node linked to origin_id
guard_definitions(origin_id) ==
    UNION {collect_condition_def_ids_from_tree(cd.guardNode) :
              cd \in {d \in Range(origin_to_cdnode(origin_id)) :
                         Truthy(Get(d, "guardNode"))}}

\* C25: a row's Condition ID is empty exactly when its Condition Path is,
\* and otherwise it is the id of a definition that bears the Condition Path
\* as its name and is referenced from a guard of the row's node.
C25_ConditionIdOfReferencedDefinition ==
    \A r \in TreeRows :
        /\ (r.ConditionID = "") <=> (r.ConditionPath = EmptyName)
        /\ r.ConditionID # "" =>
              \E k \in 1..Len(condition_defs) :
                 /\ condition_defs[k].id = r.ConditionID
                 /\ NameOf(condition_defs[k]) = r.ConditionPath
                 /\ r.ConditionID \in guard_definitions(r.ID)

-----------------------------------------------------------------------------
(* integrate_toggles: a file that does not load, and the other environments *)

Loaded(files) == SelectSeq(files, LAMBDA f : "tdata" \in DOMAIN f)

TogEnded == pc \in {"tog_done", "raised_AttributeError"}

\* C23: when one of the toggle files does not parse, integrate_toggles ends
\* as it would have on the other files alone: the same records are
\* collected, the same records are reported missing and every other
\* environment's column is the same.
C23_FailingFileSkipped ==
    (TogEnded /\ Loaded(toggle_files) # toggle_files) =>
        LET others == Loaded(toggle_files)
            alone == integrate_toggles(pre_df, others)
        IN IF \E j \in 1..Len(others) : document_raises(others[j])
           THEN pc = "raised_AttributeError"
           ELSE /\ pc = "tog_done"
                /\ df_toggles = all_results(others)
                /\ missing_records = alone.missing
                /\ \A r \in 1..Len(merged_df) : \A j \in 1..Len(others) :
                      merged_df[r][others[j].env] = alone.df[r][others[j].env]

\* a returned call in which the first file did not parse and a record of the
\* second environment switched a row off
C23_Witness ==
    /\ pc = "tog_done"
    /\ Len(toggle_files) = 2
    /\ "tdata" \notin DOMAIN toggle_files[1]
    /\ \E r \in 1..Len(merged_df) : merged_df[r].UAT1 = "OFF" /\ merged_df[r].SIT1 = ""

\* C28: when integrate_toggles has ended it has returned, the column of
\* every environment is what the call with that environment's file alone
\* gives, and every other column of every row is as it was.
C28_EnvironmentIsolation ==
    TogEnded =>
        /\ pc = "tog_done"
        /\ \A j \in 1..Len(toggle_files) :
              LET alone == integrate_toggles(pre_df, <<toggle_files[j]>>).df
              IN \A r \in 1..Len(merged_df) :
                    merged_df[r][toggle_files[j].env] = alone[r][toggle_files[j].env]
        /\ \A r \in 1..Len(merged_df) :
              \A k \in DOMAIN pre_df[r] : k \notin Envs => merged_df[r][k] = pre_df[r][k]

-----------------------------------------------------------------------------
(* propagate_conditions run again on its own output *)

\* the rows of df whose indices are in S, in their order
RECURSIVE keep_rows(_, _, _)
keep_rows(df, S, i) ==
    IF i > Len(df) THEN <<>>
    ELSE (IF i \in S THEN <<df[i]>> ELSE <<>>) \o keep_rows(df, S, i + 1)

\* C26: propagate_conditions is idempotent.  When it has returned, running
\* it again on the returned table, or on any part of its rows, leaves every
\* row's resolved action as it is.
C26_PropagateIdempotent ==
    pc = "prop_done" =>
        \A S \in SUBSET (1..Len(merged_df)) :
            \A again \in sort_values(keep_rows(merged_df, S, 1)) :
                prop_run(PropStart(again)).df = again

\* the rows before the current one that pushed onto the stack and whose
\* position is a strict prefix of the current row's
seeding_ancestors ==
    {j \in 1..(idx - 1) :
        /\ Truthy(pre_df[j].ConditionID)
        /\ NonEmpty(strip(pre_df[j].Value_action))
        /\ StrictPrefix(pos_tuple(pre_df[j].Position), pos_tuple(merged_df[idx].Position))}

\* C27: in every iteration the stack that the pop loop leaves is a chain of
\* strict prefixes that ends below the current row's position, and its top
\* is the deepest seeding ancestor of the current row (the stack is empty
\* exactly when the row has none).
C27_StackIsAncestorChain ==
    (pc = "prop_loop" /\ idx <= Len(merged_df)) =>
        LET segs == pos_tuple(merged_df[idx].Position)
            popped == pop_stack(stack, segs)
        IN /\ \A k \in 1..Len(popped) : StrictPrefix(popped[k][1], segs)
           /\ \A k \in 1..(Len(popped) - 1) : StrictPrefix(popped[k][1], popped[k + 1][1])
           /\ (seeding_ancestors = {}) <=> (popped = <<>>)
           /\ \A j \in seeding_ancestors :
                 Len(pos_tuple(pre_df[j].Position)) <= Len(popped[Len(popped)][1])

-----------------------------------------------------------------------------
(* Toggle_Operation: recompute_isEnabled and propagate_off on a toggle node *)

\* A toggle node is a dict with a name, an isEnabled flag, an optional list
\* "versions" of {name, isEnabled} and an optional list "subToggles" of
\* toggle nodes, the one list-valued key of the nodes modelled here.

\* update_release_toggle_input.py:145  any(recompute_isEnabled(c) for c in
\* children), from the i-th child on: any() stops at the first child that
\* returns True and leaves the children after it as they are
RECURSIVE recompute_isEnabled(_)
RECURSIVE recompute_children(_, _)
recompute_children(children, i) ==
    IF i > Len(children) THEN [children |-> children, any |-> FALSE]
    ELSE LET c == recompute_isEnabled(children[i])
             done == [children EXCEPT ![i] = c]
         IN IF c.isEnabled THEN [children |-> done, any |-> TRUE]
            ELSE recompute_children(done, i + 1)

\* update_release_toggle_input.py:126-150: the node as the call leaves it;
\* the call returns its isEnabled
recompute_isEnabled(node) ==
    LET versions == GetList(node, "versions")
        has_on == \E k \in 1..Len(versions) : GetOr(versions[k], "isEnabled", FALSE)
        kids == recompute_children(GetList(node, "subToggles"), 1)
        visited == IF "subToggles" \in DOMAIN node
                   THEN [node EXCEPT !.subToggles = kids.children]
                   ELSE node
    IN With(visited, "isEnabled", has_on \/ kids.any)

\* generate_final_toggle.py:40 and 43  not v.get("isEnabled", True)
version_off(v) == ~GetOr(v, "isEnabled", TRUE)

\* generate_final_toggle.py:45-57: the loop over the child nodes, from the
\* i-th on
RECURSIVE propagate_off(_)
RECURSIVE propagate_children(_, _, _)
propagate_children(children, i, acc) ==
    IF i > Len(children) THEN [children |-> children, acc |-> acc]
    ELSE LET c == propagate_off(children[i])
         IN propagate_children([children EXCEPT ![i] = c.node], i + 1,
                [has_off |-> acc.has_off \/ c.ret,
                 all_off |-> acc.all_off /\ ~GetOr(c.node, "isEnabled", TRUE)])

\* generate_final_toggle.py:32-64 (generate_policy_list.py:210-234 is the
\* same function): the node as the call leaves it, and the value returned
propagate_off(node) ==
    IF "versions" \in DOMAIN node
    THEN LET vers == node.versions
         IN IF vers = <<>>
            THEN [node |-> With(node, "isEnabled", FALSE), ret |-> TRUE]
            ELSE [node |-> IF \A k \in 1..Len(vers) : version_off(vers[k])
                           THEN With(node, "isEnabled", FALSE)
                           ELSE node,
                  ret |-> \E k \in 1..Len(vers) : version_off(vers[k])]
    ELSE LET kids == propagate_children(GetList(node, "subToggles"), 1,
                         [has_off |-> FALSE, all_off |-> TRUE])
             visited == IF "subToggles" \in DOMAIN node
                        THEN [node EXCEPT !.subToggles = kids.children]
                        ELSE node
         IN [node |-> IF kids.acc.all_off /\ kids.acc.has_off
                      THEN With(visited, "isEnabled", FALSE)
                      ELSE visited,
             ret |-> kids.acc.has_off]

\* update_release_toggle_input.py:221  recompute_isEnabled(node)
RecomputeIsEnabled ==
    /\ pc = "op_start"
    /\ op_node' = recompute_isEnabled(op_node)
    /\ pc' = "recomputed"
    /\ UNCHANGED <<op_before, pickVars, propVars, graphVars, pipeVars, togVars>>

\* generate_final_toggle.py:32  propagate_off(node)
PropagateOff ==
    /\ pc = "op_start"
    /\ op_node' = propagate_off(op_node).node
    /\ pc' = "propagated"
    /\ UNCHANGED <<op_before, pickVars, propVars, graphVars, pipeVars, togVars>>

Version(name, isEnabled) == [name |-> name, isEnabled |-> isEnabled]
VersionLists ==
    {<<>>, <<Version("v1", TRUE)>>, <<Version("v1", FALSE)>>,
     <<Version("v1", TRUE), Version("v2", FALSE)>>}

Toggle(name, isEnabled) == [name |-> name, isEnabled |-> isEnabled]
LeafToggles ==
    {Toggle("leaf", b) : b \in BOOLEAN}
        \cup {With(Toggle("leaf", b), "versions", vs) : b \in BOOLEAN, vs \in VersionLists}

KidLists == UNION {[1..n -> LeafToggles] : n \in 0..MaxKids}
MidToggles ==
    {With(Toggle("mid", b), "subToggles", kids) : b \in BOOLEAN, kids \in KidLists}
        \cup {With(With(Toggle("mid", b), "subToggles", kids), "versions", vs) :
                 b \in BOOLEAN, kids \in KidLists,
                 vs \in {<<Version("v1", TRUE)>>, <<Version("v1", FALSE)>>}}

ToggleTrees ==
    MidToggles \cup {With(Toggle("top", b), "subToggles", <<m>>) :
                        b \in BOOLEAN, m \in MidToggles}

InitOps ==
    /\ pc = "op_start"
    /\ op_node \in ToggleTrees
    /\ op_before = op_node
    /\ IdlePick
    /\ IdleProp
    /\ IdleGraph
    /\ IdlePipe
    /\ IdleTog

NextOps == RecomputeIsEnabled \/ PropagateOff

SpecOps == InitOps /\ [][NextOps]_vars

\* the paths to the nodes of a toggle tree, as sequences of child indices
RECURSIVE NodePaths(_)
NodePaths(node) ==
    {<<>>} \cup UNION {{<<k>> \o p : p \in NodePaths(node.subToggles[k])} :
                         k \in 1..Len(GetList(node, "subToggles"))}

RECURSIVE SubNode(_, _)
SubNode(node, path) ==
    IF path = <<>> THEN node ELSE SubNode(node.subToggles[Head(path)], Tail(path))

\* C29: after recompute_isEnabled(node) every node of the subtree has
\* isEnabled true exactly when one of its versions is enabled or one of
\* its child nodes is.
C29_RecomputedEverywhere ==
    pc = "recomputed" =>
        \A p \in NodePaths(op_node) :
            LET n == SubNode(op_node, p)
                versions == GetList(n, "versions")
                children == GetList(n, "subToggles")
            IN n.isEnabled <=>
                  \/ \E k \in 1..Len(versions) : versions[k].isEnabled
                  \/ \E k \in 1..Len(children) : children[k].isEnabled

\* every version and every node below n is off
RECURSIVE AllOff(_)
AllOff(n) ==
    /\ \A k \in 1..Len(GetList(n, "versions")) : ~n.versions[k].isEnabled
    /\ \A k \in 1..Len(GetList(n, "subToggles")) :
          ~n.subToggles[k].isEnabled /\ AllOff(n.subToggles[k])

\* C30: after propagate_off a node that the call switched off has nothing
\* but switched-off versions and nodes below it, and no node that was off
\* is on.
C30_OffOnlyIfAllOff ==
    pc = "propagated" =>
        \A p \in NodePaths(op_node) :
            /\ (SubNode(op_before, p).isEnabled /\ ~SubNode(op_node, p).isEnabled)
                  => AllOff(SubNode(op_node, p))
            /\ SubNode(op_node, p).isEnabled => SubNode(op_before, p).isEnabled

=============================================================================
